---- MODULE Spec2Model ----
(***************************************************************************)
(* A model of antigravity_proxy.py: the process-wide thought-signature     *)
(* store, the sliding-window rate limiter, the upstream URL pool of        *)
(* AntigravityClient, the streaming and non-streaming response processors, *)
(* the streaming handlers and the request transformer.                     *)
(*                                                                         *)
(* Each sub-system has its own variables, its own initial condition and    *)
(* its own next-state relation; a specification runs one sub-system and    *)
(* keeps the variables of the others at their idle values.                 *)
(*                                                                         *)
(* Python strings that are concatenated or measured (texts, signatures)    *)
(* are sequences of one-character strings; Optional[str] is <<>> for None  *)
(* and <<s>> for the string s.                                             *)
(***************************************************************************)
EXTENDS Integers, Sequences, FiniteSets, TLC

VARIABLES
    \* ---- global thought-signature store (lines 132-149)
    global_thought_signature,   \* Optional[str]
    store_calls,                \* history: the arguments of the store calls so far
    \* ---- wall clock, read by time.time()
    clock,
    \* ---- RateLimiter (lines 45-95)
    request_times,              \* deque of request instants
    last_request_time,
    rl_lock,                    \* 0 when free, else the caller holding self._lock
    rl_pc,                      \* per caller: "idle" or "sleeping"
    rl_wake,                    \* per caller: instant at which asyncio.sleep may return
    acquire_returns,            \* history: the instants at which acquire returned
    \* ---- AntigravityClient: URL pool and project id (lines 2860-3061)
    url_availability,           \* self._url_availability: url -> unavailable-until instant
    project_id,                 \* self.project_id, <<>> for ""
    fr,                         \* per request: where it is in _ensure_project / forward_request
    pool_starts,                \* how many requests have been received
    \* ---- StreamingProcessor driven by a handler (lines 1659-1896)
    sp,                         \* the processor object and the events it returned
    sp_lines,                   \* history: the lines passed to process_line
    sp_finished,                \* finish() has been called
    \* ---- both processors over one list of upstream parts
    agg_parts,                  \* the upstream parts
    agg_blocks,                 \* content blocks of NonStreamingProcessor.process
    agg_events,                 \* events of the drained StreamingProcessor
    agg_pc,                     \* which of the two has run
    \* ---- a response handler reading an upstream body (lines 3174-3250, 3355-3478)
    up_lines,                   \* the lines of the upstream body
    up_wire,                    \* the part of the body not yet delivered
    h,                          \* the handler's locals, the writes it attempted
    \* ---- RequestTransformer.transform (lines 1228-1313)
    tr_req,                     \* the canonical request as received
    tr_messages,                \* its message list, which transform changes in place
    tr_env,                     \* <<>> before the call, then <<the envelope>>
    \* ---- handle_gemini_stream_generate up to the upstream call (lines 4532-4593)
    gm_req,                     \* the Gemini request and the proxy's thinking settings
    gm_claude,                  \* <<>>, then <<the canonical request handed to transform>>
    gm_env,                     \* <<>>, then <<the envelope>>
    \* ---- ResponsesStreamingProcessor driven by a handler (lines 2299-2682)
    rs,                         \* the processor object and the events it returned
    rs_lines,                   \* history: the lines passed to process_line
    rs_finished,                \* finish() has been called
    \* ---- RequestTransformer._build_system_instruction (lines 1315-1344)
    si_system,                  \* the request's system field
    si_out,                     \* <<>> before the call, then <<what it returned>>
    \* ---- the inbound adapters (lines 661-817, 907-1100, 2044-2190)
    ad_req,                     \* which adapter, and the client's message list
    ad_out,                     \* <<>> before the call, then <<the canonical messages>>
    \* ---- a handler from _check_auth to the upstream call (lines 3074-3153)
    au_req,                     \* the request headers and the configured key
    au,                         \* the handler's position, its reply, the calls it made
    \* ---- clean_json_schema (lines 378-455)
    cs_schema,                  \* the schema of a tool as the client sent it
    cs_out,                     \* what the sanitizer returned, call after call
    \* ---- _build_contents followed by gemini_to_claude
    rt_req,                     \* the canonical messages and the transformer's two flags
    rt_contents,                \* <<>>, then <<the upstream contents>>
    rt_back,                    \* <<>>, then <<the canonical messages read back>>
    \* ---- CursorStreamingProcessor driven by a handler (lines 2687-2855)
    cu,                         \* the processor object and the frames it returned
    cu_lines,                   \* history: the lines passed to process_line
    cu_finished,                \* finish() has been called
    \* ---- AntigravityClient's access token (lines 2880-2900)
    tk,                         \* access_token, expires_at, exchanges started so far
    tk_pc,                      \* per caller: "idle" or "refreshing"
    tk_ret,                     \* per caller: the token get_access_token last returned
    \* ---- one request from forward_request to the handler's return (lines 2909-2957, 3153-3250)
    ur                          \* the handler's position and the upstream responses it obtained

storeVars == <<global_thought_signature, store_calls>>
rlVars == <<request_times, last_request_time, rl_lock, rl_pc, rl_wake, acquire_returns>>
poolVars == <<url_availability, project_id, fr, pool_starts>>
spVars == <<sp, sp_lines, sp_finished>>
aggVars == <<agg_parts, agg_blocks, agg_events, agg_pc>>
handlerVars == <<up_lines, up_wire, h>>
transformVars == <<tr_req, tr_messages, tr_env>>
geminiVars == <<gm_req, gm_claude, gm_env>>
\* the sub-systems behind the request and response paths above
responsesVars == <<rs, rs_lines, rs_finished>>
systemVars == <<si_system, si_out>>
adapterVars == <<ad_req, ad_out>>
authVars == <<au_req, au>>
schemaVars == <<cs_schema, cs_out>>
roundVars == <<rt_req, rt_contents, rt_back>>
cursorVars == <<cu, cu_lines, cu_finished>>
tokenVars == <<tk, tk_pc, tk_ret>>
releaseVars == <<ur>>
lateVars == <<schemaVars, roundVars, cursorVars, tokenVars, releaseVars>>
edgeVars == <<adapterVars, authVars, lateVars>>
frontVars == <<geminiVars, responsesVars, systemVars, edgeVars>>
vars == <<storeVars, clock, rlVars, poolVars, spVars, aggVars, handlerVars, transformVars,
          frontVars>>

\* what a sub-system leaves alone
nonStoreVars == <<clock, rlVars, poolVars, spVars, aggVars, handlerVars, transformVars, frontVars>>
nonRLVars == <<storeVars, poolVars, spVars, aggVars, handlerVars, transformVars, frontVars>>
nonPoolVars == <<storeVars, rlVars, spVars, aggVars, handlerVars, transformVars, frontVars>>
nonSPVars == <<storeVars, clock, rlVars, poolVars, aggVars, handlerVars, transformVars, frontVars>>
nonHandlerVars == <<storeVars, clock, rlVars, poolVars, spVars, aggVars, transformVars, frontVars>>
nonTransformVars == <<storeVars, clock, rlVars, poolVars, spVars, aggVars, handlerVars, frontVars>>
backVars == <<clock, rlVars, poolVars, spVars, aggVars, handlerVars, transformVars>>
nonGeminiVars == <<storeVars, backVars, responsesVars, systemVars, edgeVars>>
nonResponsesVars == <<backVars, geminiVars, systemVars, edgeVars>>
nonSystemVars == <<storeVars, backVars, geminiVars, responsesVars, edgeVars>>
nonAdapterVars == <<backVars, geminiVars, responsesVars, systemVars, authVars, lateVars>>
nonAuthVars == <<storeVars, backVars, geminiVars, responsesVars, systemVars, adapterVars,
                 lateVars>>
oldVars == <<storeVars, backVars, geminiVars, responsesVars, systemVars, adapterVars, authVars>>
nonSchemaVars == <<oldVars, roundVars, cursorVars, tokenVars, releaseVars>>
nonRoundVars == <<backVars, geminiVars, responsesVars, systemVars, adapterVars, authVars,
                  schemaVars, cursorVars, tokenVars, releaseVars>>
nonCursorVars == <<backVars, geminiVars, responsesVars, systemVars, adapterVars, authVars,
                   schemaVars, roundVars, tokenVars, releaseVars>>
\* the clock is left out: time passes while a token is fetched
nonTokenVars == <<storeVars, rlVars, poolVars, spVars, aggVars, handlerVars, transformVars,
                  geminiVars, responsesVars, systemVars, adapterVars, authVars,
                  schemaVars, roundVars, cursorVars, releaseVars>>
nonReleaseVars == <<oldVars, schemaVars, roundVars, cursorVars, tokenVars>>
\* one upstream body read through both streaming processors
nonLineVars == <<clock, rlVars, poolVars, aggVars, handlerVars, transformVars,
                 geminiVars, systemVars, edgeVars>>
nonAggVars == <<storeVars, clock, rlVars, poolVars, spVars, handlerVars, transformVars, frontVars>>

(***************************************************************************)
(* Helpers for Python strings and options                                  *)
(***************************************************************************)
Rep(c, n) == [i \in 1..n |-> c]

None == <<>>
Some(s) == <<s>>

Max(a, b) == IF a >= b THEN a ELSE b

(***************************************************************************)
(* Global thought-signature store                                          *)
(***************************************************************************)
MIN_SIGNATURE_LENGTH == 50

\* A store that also replaces a signature of equal length.
global_thought_signature_store_ge(cur, sig) ==
    IF cur = None \/ Len(sig) >= Len(cur[1]) THEN Some(sig) ELSE cur

\* global_thought_signature_store: the value of _global_thought_signature
\* after store(sig) when it held cur.
global_thought_signature_store(cur, sig) ==
    IF cur = None \/ Len(sig) > Len(cur[1]) THEN Some(sig) ELSE cur

\* global_thought_signature_get
global_thought_signature_get(cur) == cur

MaxSigLen == 2
MaxStoreCalls == 4

StoreSigs == { Rep(c, n) : c \in {"x", "y"}, n \in 0..MaxSigLen }

StoreInit ==
    /\ global_thought_signature = None
    /\ store_calls = <<>>

\* One call of global_thought_signature_store(sig), from any handler.  The
\* function has no suspension point, so under asyncio it runs atomically.
Store(sig) ==
    /\ Len(store_calls) < MaxStoreCalls
    /\ global_thought_signature' =
           global_thought_signature_store(global_thought_signature, sig)
    /\ store_calls' = Append(store_calls, sig)
    /\ UNCHANGED nonStoreVars

StoreNext == \E sig \in StoreSigs : Store(sig)

(***************************************************************************)
(* RateLimiter                                                             *)
(***************************************************************************)
\* The instance checked: RateLimiter(max_requests, window_seconds, min_interval)
max_requests == 2
window_seconds == 5
min_interval == 1

NumCallers == 2
MaxAcquires == 5
MaxClock == 12

Callers == 1..NumCallers

RECURSIVE EvictOld(_, _)
\* lines 72-73: popleft while the oldest instant is before now - window
EvictOld(times, now) ==
    IF times # <<>> /\ times[1] < now - window_seconds
    THEN EvictOld(Tail(times), now)
    ELSE times

\* lines 76-79: the wait that keeps min_interval from the last request
IntervalWait(last, now) ==
    IF last > 0 /\ now - last < min_interval
    THEN min_interval - (now - last)
    ELSE 0

\* lines 82-86: the wait for the oldest instant to leave a full window
WindowWait(times, now, wait_time) ==
    IF Len(times) >= max_requests /\ times[1] + window_seconds - now > wait_time
    THEN times[1] + window_seconds - now
    ELSE wait_time

\* lines 68-86: wait_time as computed under the lock at instant now
WaitTime(times, last, now) ==
    WindowWait(EvictOld(times, now), now, IntervalWait(last, now))

\* line 67: `async with self._lock` goes on when no caller holds the lock
LockFree_always(lock) == TRUE
LockFree(lock) == lock = 0

RLInit ==
    /\ request_times = <<>>
    /\ last_request_time = 0
    /\ rl_lock = 0
    /\ rl_pc = [c \in Callers |-> "idle"]
    /\ rl_wake = [c \in Callers |-> 0]
    /\ acquire_returns = <<>>

\* time passes
Tick ==
    /\ clock < MaxClock
    /\ clock' = clock + 1
    /\ UNCHANGED <<rlVars, nonRLVars>>

\* lines 93-95: append the instant, remember it, return (the lock is released)
AcquireReturn(c, times, now) ==
    /\ request_times' = Append(times, now)
    /\ last_request_time' = now
    /\ rl_lock' = 0
    /\ rl_pc' = [rl_pc EXCEPT ![c] = "idle"]
    /\ acquire_returns' = Append(acquire_returns, now)

\* lines 67-90: caller c takes the lock, evicts, computes wait_time and either
\* returns at once or goes to sleep holding the lock.
AcquireEnter(c) ==
    /\ rl_pc[c] = "idle"
    /\ LockFree(rl_lock)
    /\ Len(acquire_returns) < MaxAcquires
    /\ LET now == clock
           times == EvictOld(request_times, now)
           wait_time == WaitTime(request_times, last_request_time, now)
       IN  IF wait_time > 0
           THEN /\ request_times' = times
                /\ rl_lock' = c
                /\ rl_pc' = [rl_pc EXCEPT ![c] = "sleeping"]
                /\ rl_wake' = [rl_wake EXCEPT ![c] = now + wait_time]
                /\ UNCHANGED <<last_request_time, acquire_returns>>
           ELSE /\ AcquireReturn(c, times, now)
                /\ UNCHANGED rl_wake
    /\ UNCHANGED <<clock, nonRLVars>>

\* lines 90-95: asyncio.sleep(wait_time) is over (not before its deadline);
\* now is read again, appended, and acquire returns.
AcquireWake(c) ==
    /\ rl_pc[c] = "sleeping"
    /\ rl_lock = c
    /\ clock >= rl_wake[c]
    /\ AcquireReturn(c, request_times, clock)
    /\ UNCHANGED rl_wake
    /\ UNCHANGED <<clock, nonRLVars>>

RLNext ==
    \/ Tick
    \/ \E c \in Callers : AcquireEnter(c)
    \/ \E c \in Callers : AcquireWake(c)

(***************************************************************************)
(* AntigravityClient: URL pool, project bootstrap, forward_request         *)
(***************************************************************************)
BASE_URLS == <<"sandbox", "daily", "prod">>
Urls == { BASE_URLS[i] : i \in DOMAIN BASE_URLS }

COOLDOWN_TTL == 300
SLEEP_429 == 5

MaxStarts == 2

\* two handlers run concurrently
Requests == {"r1", "r2"}

\* An availability test with the comparison turned around.
IsAvailable_inverted(until, now) == until > now

\* line 2904: a URL is available once its unavailable-until instant has passed
IsAvailable(until, now) == until <= now

\* _get_available_urls (lines 2902-2904)
GetAvailableUrls(avail, now) ==
    SelectSeq(BASE_URLS, LAMBDA u : IsAvailable(avail[u], now))

\* A request that tries the whole pool whatever the cool-down map holds.
UrlsToTry_all(avail, now) == BASE_URLS

\* lines 2923, 3034: self._get_available_urls() or BASE_URLS
UrlsToTry(avail, now) ==
    IF GetAvailableUrls(avail, now) = <<>> THEN BASE_URLS
    ELSE GetAvailableUrls(avail, now)

\* the URLs in cool-down at instant now
Cooling(avail, now) == { u \in Urls : ~IsAvailable(avail[u], now) }

\* _mark_unavailable (lines 2906-2907)
MarkUnavailable(avail, url, now) == [avail EXCEPT ![url] = now + COOLDOWN_TTL]

\* lines 2943, 2953, 3047, 3058: url_idx < len(available_urls) - 1 (1-based here)
NotLastUrl(idx, urls) == idx < Len(urls)

\* the record of a request that has returned or raised: what it did and saw
Finished(q, tried, status) ==
    [q EXCEPT !.pc = "done", !.attempted = tried, !.status = status,
              !.urls = <<>>, !.idx = 0, !.wake = 0]

FrIdle == [pc |-> "idle", urls |-> <<>>, idx |-> 0, attempted |-> <<>>,
           got429 |-> {}, wake |-> 0, status |-> "none", project |-> <<>>,
           cooling |-> {}, bootstrap |-> FALSE]

\* AntigravityClient.__init__ (lines 2863-2869) with no project id configured
BootInit ==
    /\ url_availability = [u \in Urls |-> 0]
    /\ project_id = <<>>
    /\ fr = [r \in Requests |-> FrIdle]
    /\ pool_starts = 0

\* AntigravityClient.__init__ (lines 2863-2869) with a project id configured
PoolInit ==
    /\ url_availability = [u \in Urls |-> 0]
    /\ project_id = <<"p">>
    /\ fr = [r \in Requests |-> FrIdle]
    /\ pool_starts = 0

PostOutcomes == {"200", "429", "exception"}
LoadOutcomes == {"project", "noproject", "429", "exception"}

\* The instants ahead at which something changes: the end of a request's
\* sleep and the end of a URL's cool-down.
PendingInstants ==
    { fr[r].wake : r \in { q \in Requests : fr[q].pc = "sleep429" } }
        \cup { url_availability[u] : u \in Urls }

NextInstant ==
    CHOOSE t \in PendingInstants :
        /\ t > clock
        /\ \A t2 \in PendingInstants : t2 > clock => t <= t2

\* Time passes, up to the next instant at which something changes.  The
\* event loop resumes a request whose sleep is over before more time passes.
PoolTick ==
    /\ \E t \in PendingInstants : t > clock
    /\ \A r \in Requests : fr[r].pc = "sleep429" => fr[r].wake > clock
    /\ clock' = NextInstant
    /\ UNCHANGED <<url_availability, project_id, fr, pool_starts, nonPoolVars>>

\* A handler receives a request.  _ensure_project (lines 3100-3110): with no
\* project id stored it enters load_code_assist, which fixes its URL list
\* (line 3034); otherwise the handler builds the envelope with the stored
\* project id (line 3151) and goes on to forward_request.
RequestStart(r) ==
    /\ fr[r].pc \in {"idle", "done"}
    /\ pool_starts < MaxStarts
    /\ pool_starts' = pool_starts + 1
    /\ fr' = [fr EXCEPT ![r] =
                 IF project_id = <<>>
                 THEN [FrIdle EXCEPT !.pc = "lca_post",
                                     !.urls = UrlsToTry(url_availability, clock),
                                     !.idx = 1,
                                     !.bootstrap = TRUE]
                 ELSE [FrIdle EXCEPT !.pc = "fwd_start", !.project = project_id]]
    /\ UNCHANGED <<url_availability, project_id, clock, nonPoolVars>>

\* load_code_assist (lines 3037-3061): the reply to the POST on the current
\* URL.  A 429 on a URL that is not the last, and any exception (a status
\* other than 200 raises one inside the try), marks the URL and moves on; on
\* the last URL the exception escapes and _ensure_project answers 500.  After
\* a 200 the handler builds the envelope with the project id then stored
\* (line 3151), whether or not the reply carried one.
LcaPost(r, outcome) ==
    /\ fr[r].pc = "lca_post"
    /\ LET q == fr[r]
           url == q.urls[q.idx]
       IN  IF outcome \in {"project", "noproject"}
           THEN /\ project_id' = IF outcome = "project" THEN <<"p">> ELSE project_id
                /\ fr' = [fr EXCEPT ![r].pc = "fwd_start",
                                    ![r].project = project_id']
                /\ UNCHANGED url_availability
           ELSE IF NotLastUrl(q.idx, q.urls)
           THEN /\ url_availability' = MarkUnavailable(url_availability, url, clock)
                /\ fr' = [fr EXCEPT ![r].idx = q.idx + 1]
                /\ UNCHANGED project_id
           ELSE /\ fr' = [fr EXCEPT ![r] = Finished(q, <<>>, "bootstrap_failed")]
                /\ UNCHANGED <<url_availability, project_id>>
    /\ UNCHANGED <<pool_starts, clock, nonPoolVars>>

\* forward_request, lines 2920-2926: after the rate limiter and the token,
\* the request fixes its URL list.
FwdStart(r) ==
    /\ fr[r].pc = "fwd_start"
    /\ fr' = [fr EXCEPT ![r].pc = "post",
                        ![r].urls = UrlsToTry(url_availability, clock),
                        ![r].idx = 1,
                        ![r].cooling = Cooling(url_availability, clock)]
    /\ UNCHANGED <<url_availability, project_id, pool_starts, clock, nonPoolVars>>

\* forward_request, lines 2936-2956: the outcome of session.post on the
\* current URL.  A 429 starts the 5 s sleep; an exception marks the URL and
\* moves on unless the URL is the last, where it is raised; any other
\* response is returned to the caller.
FwdPost(r, outcome) ==
    /\ fr[r].pc = "post"
    /\ LET q == fr[r]
           url == q.urls[q.idx]
           tried == Append(q.attempted, url)
       IN  CASE outcome = "429" ->
                  /\ fr' = [fr EXCEPT ![r].pc = "sleep429",
                                      ![r].attempted = tried,
                                      ![r].got429 = q.got429 \cup {url},
                                      ![r].wake = clock + SLEEP_429]
                  /\ UNCHANGED url_availability
             [] outcome = "exception" ->
                  IF NotLastUrl(q.idx, q.urls)
                  THEN /\ url_availability' = MarkUnavailable(url_availability, url, clock)
                       /\ fr' = [fr EXCEPT ![r].attempted = tried, ![r].idx = q.idx + 1]
                  ELSE /\ fr' = [fr EXCEPT ![r] = Finished(q, tried, "raised")]
                       /\ UNCHANGED url_availability
             [] OTHER ->
                  /\ fr' = [fr EXCEPT ![r] = Finished(q, tried, outcome)]
                  /\ UNCHANGED url_availability
    /\ UNCHANGED <<project_id, pool_starts, clock, nonPoolVars>>

\* forward_request, lines 2942-2949: the sleep after a 429 is over.  A URL
\* that is not the last is marked, the response released and the next URL
\* tried; the 429 of the last URL is returned.
FwdAfterSleep(r) ==
    /\ fr[r].pc = "sleep429"
    /\ clock >= fr[r].wake
    /\ LET q == fr[r]
           url == q.urls[q.idx]
       IN  IF NotLastUrl(q.idx, q.urls)
           THEN /\ url_availability' = MarkUnavailable(url_availability, url, clock)
                /\ fr' = [fr EXCEPT ![r].pc = "post", ![r].idx = q.idx + 1,
                                    ![r].wake = 0]
           ELSE /\ fr' = [fr EXCEPT ![r] = Finished(q, q.attempted, "429")]
                /\ UNCHANGED url_availability
    /\ UNCHANGED <<project_id, pool_starts, clock, nonPoolVars>>

BootNext ==
    \/ PoolTick
    \/ \E r \in Requests : RequestStart(r)
    \/ \E r \in Requests, o \in LoadOutcomes : LcaPost(r, o)
    \/ \E r \in Requests : FwdStart(r)
    \/ \E r \in Requests, o \in PostOutcomes : FwdPost(r, o)
    \/ \E r \in Requests : FwdAfterSleep(r)

PoolNext ==
    \/ PoolTick
    \/ \E r \in Requests : RequestStart(r)
    \/ \E r \in Requests : FwdStart(r)
    \/ \E r \in Requests, o \in PostOutcomes : FwdPost(r, o)
    \/ \E r \in Requests : FwdAfterSleep(r)

(***************************************************************************)
(* StreamingProcessor (lines 1659-1896)                                    *)
(*                                                                         *)
(* The processor is a record of the object's fields plus `out`, the        *)
(* events formatted so far, in order.  A method becomes an operator from   *)
(* the record to the record after the call; what the method returns is     *)
(* what it appended to `out`.  The usage counters and the response id      *)
(* appear in the payload of message_start and message_delta only and are   *)
(* left out.                                                               *)
(***************************************************************************)
BLOCK_NONE == 0
BLOCK_TEXT == 1
BLOCK_THINKING == 2
BLOCK_FUNCTION == 3

\* an event: its SSE type, its block index, and for a block start the block
\* type, for a delta the delta type, for message_delta the stop reason
Ev(type, index, kind, payload) ==
    [type |-> type, index |-> index, kind |-> kind, payload |-> payload]

SP_new ==
    [block_type |-> BLOCK_NONE, block_index |-> 0,
     message_start_sent |-> FALSE, message_stop_sent |-> FALSE,
     used_tool |-> FALSE, pending_signature |-> <<>>,
     trailing_signature |-> <<>>, out |-> <<>>]

SP_format_sse(s, ev) == [s EXCEPT !.out = Append(@, ev)]

SP_emit_delta(s, delta_type, payload) ==
    SP_format_sse(s, Ev("content_block_delta", s.block_index, delta_type, payload))

\* the signature of a thinking block goes out just before the block is closed
SP_flush_pending(s) ==
    IF s.block_type = BLOCK_THINKING /\ s.pending_signature # <<>>
    THEN [SP_emit_delta(s, "signature_delta", s.pending_signature)
             EXCEPT !.pending_signature = <<>>]
    ELSE s

SP_emit_stop(s) == SP_format_sse(s, Ev("content_block_stop", s.block_index, "", <<>>))

SP_end_block(s) ==
    IF s.block_type = BLOCK_NONE THEN s
    ELSE [SP_emit_stop(SP_flush_pending(s))
             EXCEPT !.block_index = @ + 1, !.block_type = BLOCK_NONE]

\* content_block is given by its type and, for tool_use, its signature
SP_emit_start(s, kind, signature) ==
    SP_format_sse(s, Ev("content_block_start", s.block_index, kind, signature))

SP_start_block(s, block_type, kind, signature) ==
    [SP_emit_start(IF s.block_type # BLOCK_NONE THEN SP_end_block(s) ELSE s,
                   kind, signature)
        EXCEPT !.block_type = block_type]

SP_emit_empty_thinking(s, signature) ==
    SP_end_block(
        SP_emit_delta(
            SP_emit_delta(SP_start_block(s, BLOCK_THINKING, "thinking", <<>>),
                          "thinking_delta", <<>>),
            "signature_delta", signature))

\* the three places that flush a trailing signature before going on
SP_flush_trailing(s) ==
    IF s.trailing_signature # <<>>
    THEN [SP_emit_empty_thinking(SP_end_block(s), s.trailing_signature)
             EXCEPT !.trailing_signature = <<>>]
    ELSE s

SP_emit_args(s, fc) ==
    IF fc.args THEN SP_emit_delta(s, "input_json_delta", <<"j">>) ELSE s

SP_process_function_call(s, fc, signature) ==
    SP_end_block(
        SP_emit_args(
            SP_start_block([s EXCEPT !.used_tool = TRUE],
                           BLOCK_FUNCTION, "tool_use", signature),
            fc))

\* start a block of the type unless one is open
SP_open(s, block_type, kind) ==
    IF s.block_type # block_type THEN SP_start_block(s, block_type, kind, <<>>) ELSE s

SP_thinking_delta(s, text) ==
    IF text # <<>> THEN SP_emit_delta(s, "thinking_delta", text) ELSE s

SP_set_pending(s, signature) ==
    IF signature # <<>> THEN [s EXCEPT !.pending_signature = signature] ELSE s

SP_process_thinking(s, text, signature) ==
    SP_set_pending(
        SP_thinking_delta(SP_open(SP_flush_trailing(s), BLOCK_THINKING, "thinking"), text),
        signature)

SP_process_text(s, text, signature) ==
    IF text = <<>>
    THEN IF signature # <<>> THEN [s EXCEPT !.trailing_signature = signature] ELSE s
    ELSE IF signature # <<>>
    THEN SP_emit_empty_thinking(
             SP_end_block(
                 SP_emit_delta(SP_start_block(SP_flush_trailing(s), BLOCK_TEXT, "text", <<>>),
                               "text_delta", text)),
             signature)
    ELSE SP_emit_delta(SP_open(SP_flush_trailing(s), BLOCK_TEXT, "text"),
                       "text_delta", text)

\* the markdown image a part's inlineData becomes
ImageText == <<"i">>

SP_process_inline(s, part) ==
    IF part.inlineData THEN SP_process_text(s, ImageText, <<>>) ELSE s

SP_process_part(s, part) ==
    IF part.functionCall # <<>>
    THEN SP_process_function_call(SP_flush_trailing(s), part.functionCall[1],
                                  part.thoughtSignature)
    ELSE SP_process_inline(
             IF part.text # <<>> \/ part.thought
             THEN IF part.thought
                  THEN SP_process_thinking(s, part.text, part.thoughtSignature)
                  ELSE SP_process_text(s, part.text, part.thoughtSignature)
             ELSE s,
             part)

RECURSIVE SP_process_parts(_, _)
SP_process_parts(s, parts) ==
    IF parts = <<>> THEN s
    ELSE SP_process_parts(SP_process_part(s, Head(parts)), Tail(parts))

\* a processor that looks at the finish reason before the tool flag
SP_stop_reason_swapped(s, finish_reason) ==
    IF finish_reason = "MAX_TOKENS" THEN "max_tokens"
    ELSE IF s.used_tool THEN "tool_use" ELSE "end_turn"
SP_stop_reason(s, finish_reason) ==
    IF s.used_tool THEN "tool_use"
    ELSE IF finish_reason = "MAX_TOKENS" THEN "max_tokens" ELSE "end_turn"

SP_finish_trailing(s) ==
    IF s.trailing_signature # <<>>
    THEN [SP_emit_empty_thinking(s, s.trailing_signature)
             EXCEPT !.trailing_signature = <<>>]
    ELSE s

SP_emit_message_delta(s, finish_reason) ==
    SP_format_sse(s, Ev("message_delta", 0, SP_stop_reason(s, finish_reason), <<>>))

SP_emit_message_stop(s) ==
    IF ~s.message_stop_sent
    THEN [SP_format_sse(s, Ev("message_stop", 0, "", <<>>))
             EXCEPT !.message_stop_sent = TRUE]
    ELSE s

SP_emit_finish(s, finish_reason) ==
    SP_emit_message_stop(
        SP_emit_message_delta(SP_finish_trailing(SP_end_block(s)), finish_reason))

SP_emit_message_start(s) ==
    IF s.message_start_sent THEN s
    ELSE SP_format_sse([s EXCEPT !.message_start_sent = TRUE],
                       Ev("message_start", 0, "", <<>>))

SP_line_parts(s, line) ==
    IF line.candidates # <<>>
    THEN SP_process_parts(s, line.candidates[1].parts)
    ELSE s

SP_line_finish(s, line) ==
    IF line.candidates # <<>> /\ line.candidates[1].finishReason # ""
    THEN SP_emit_finish(s, line.candidates[1].finishReason)
    ELSE s

\* a process_line that announces the message before it has parsed the line
SP_process_line_eager(s, line) ==
    SP_line_finish(
        SP_line_parts(IF ~s.message_start_sent THEN SP_emit_message_start(s) ELSE s,
                      IF line.json THEN line ELSE [json |-> TRUE, candidates |-> <<>>]),
        IF line.json THEN line ELSE [json |-> TRUE, candidates |-> <<>>])

\* A line is [json, candidates]: json is FALSE for a line that is blank, has
\* no "data:" prefix, is "[DONE]" or does not parse; candidates is the list
\* under "candidates", each with its content parts and its finishReason.
SP_process_line(s, line) ==
    IF ~line.json THEN s
    ELSE SP_line_finish(
             SP_line_parts(
                 IF ~s.message_start_sent THEN SP_emit_message_start(s) ELSE s,
                 line),
             line)

SP_finish(s) == IF s.message_stop_sent THEN s ELSE SP_emit_finish(s, "")

\* ---- the inputs
MaxLines == 2

Texts == {<<>>, <<"a">>}
Signatures == {<<>>, <<"s">>}
FunctionCalls == {[args |-> FALSE], [args |-> TRUE]}

MkPart(fc, text, thought, sig, inline) ==
    [functionCall |-> fc, text |-> text, thought |-> thought,
     thoughtSignature |-> sig, inlineData |-> inline]

Parts ==
    {MkPart(<<fc>>, <<>>, FALSE, sig, FALSE) : fc \in FunctionCalls, sig \in Signatures}
    \cup {MkPart(<<>>, t, th, sig, FALSE) :
              t \in Texts, th \in BOOLEAN, sig \in Signatures}
    \cup {MkPart(<<>>, <<>>, FALSE, <<>>, TRUE)}

FinishReasons == {"", "STOP", "MAX_TOKENS"}

JunkLine == [json |-> FALSE, candidates |-> <<>>]
DataLine(parts, finishReason) ==
    [json |-> TRUE, candidates |-> <<[parts |-> parts, finishReason |-> finishReason]>>]

Lines ==
    {JunkLine, [json |-> TRUE, candidates |-> <<>>]}
    \cup {DataLine(<<>>, f) : f \in FinishReasons}
    \cup {DataLine(<<p>>, f) : p \in Parts, f \in FinishReasons}

SPInit ==
    /\ sp = SP_new
    /\ sp_lines = <<>>
    /\ sp_finished = FALSE

\* the handler feeds one upstream line
ProcessLine(line) ==
    /\ ~sp_finished
    /\ Len(sp_lines) < MaxLines
    /\ sp' = SP_process_line(sp, line)
    /\ sp_lines' = Append(sp_lines, line)
    /\ UNCHANGED <<sp_finished, nonSPVars>>

\* the upstream stream has ended and the handler calls finish()
Finish ==
    /\ ~sp_finished
    /\ sp' = SP_finish(sp)
    /\ sp_finished' = TRUE
    /\ UNCHANGED <<sp_lines, nonSPVars>>

StreamNext ==
    \/ \E line \in Lines : ProcessLine(line)
    \/ Finish

(***************************************************************************)
(* NonStreamingProcessor (lines 1535-1656)                                 *)
(*                                                                         *)
(* A content block is its type, its text (the thinking text for a thinking *)
(* block) and its signature (<<>> when it has none).                       *)
(***************************************************************************)
Block(type, text, signature) == [type |-> type, text |-> text, signature |-> signature]

NSP_new ==
    [content_blocks |-> <<>>, text_builder |-> <<>>, thinking_builder |-> <<>>,
     thinking_signature |-> <<>>, trailing_signature |-> <<>>, has_tool_call |-> FALSE]

NSP_flush_text(n) ==
    IF n.text_builder # <<>>
    THEN [n EXCEPT !.content_blocks = Append(@, Block("text", n.text_builder, <<>>)),
                   !.text_builder = <<>>]
    ELSE n

NSP_flush_thinking(n) ==
    IF n.thinking_builder # <<>> \/ n.thinking_signature # <<>>
    THEN [n EXCEPT !.content_blocks =
                       Append(@, Block("thinking", n.thinking_builder, n.thinking_signature)),
                   !.thinking_builder = <<>>,
                   !.thinking_signature = <<>>]
    ELSE n

\* append the empty thinking block that carries the trailing signature
NSP_append_trailing(n) ==
    [n EXCEPT !.content_blocks = Append(@, Block("thinking", <<>>, n.trailing_signature)),
              !.trailing_signature = <<>>]

NSP_process_inline(n, part) ==
    IF part.inlineData
    THEN NSP_flush_text([NSP_flush_thinking(n) EXCEPT !.text_builder = @ \o ImageText])
    ELSE n

NSP_process_part(n, part) ==
    LET signature == part.thoughtSignature
        text == part.text
    IN
    IF part.functionCall # <<>>
    THEN LET n1 == NSP_flush_text(NSP_flush_thinking(n))
             n2 == IF n1.trailing_signature # <<>> THEN NSP_append_trailing(n1) ELSE n1
         IN  [n2 EXCEPT !.has_tool_call = TRUE,
                        !.content_blocks = Append(@, Block("tool_use", <<>>, signature))]
    ELSE IF text # <<>> \/ part.thought
    THEN IF part.thought
         THEN LET n1 == NSP_flush_text(n)
                  n2 == IF n1.trailing_signature # <<>>
                        THEN NSP_append_trailing(NSP_flush_thinking(n1))
                        ELSE n1
                  n3 == [n2 EXCEPT !.thinking_builder = @ \o text]
              IN  NSP_process_inline(
                      IF signature # <<>>
                      THEN [n3 EXCEPT !.thinking_signature = signature]
                      ELSE n3, part)
         ELSE IF text = <<>>
              THEN IF signature # <<>>
                   THEN [n EXCEPT !.trailing_signature = signature]
                   ELSE n
              ELSE LET n1 == NSP_flush_thinking(n)
                       n2 == IF n1.trailing_signature # <<>>
                             THEN NSP_append_trailing(NSP_flush_text(n1))
                             ELSE n1
                       n3 == [n2 EXCEPT !.text_builder = @ \o text]
                   IN  NSP_process_inline(
                           IF signature # <<>>
                           THEN [NSP_flush_text(n3) EXCEPT !.content_blocks =
                                    Append(@, Block("thinking", <<>>, signature))]
                           ELSE n3, part)
    ELSE NSP_process_inline(n, part)

RECURSIVE NSP_process_parts(_, _)
NSP_process_parts(n, parts) ==
    IF parts = <<>> THEN n
    ELSE NSP_process_parts(NSP_process_part(n, Head(parts)), Tail(parts))

\* _build_response (lines 1627-1637): resp is the response handed to
\* process(), with its candidates list
NSP_stop_reason(has_tool_call, resp) ==
    IF has_tool_call THEN "tool_use"
    ELSE IF resp.candidates # <<>> /\ resp.candidates[1].finishReason = "MAX_TOKENS"
    THEN "max_tokens"
    ELSE "end_turn"

\* process(): the content blocks of the reply
NSP_process(parts) ==
    LET n1 == NSP_flush_text(NSP_flush_thinking(NSP_process_parts(NSP_new, parts)))
        n2 == IF n1.trailing_signature # <<>> THEN NSP_append_trailing(n1) ELSE n1
    IN  n2.content_blocks

(***************************************************************************)
(* The two processors over the same upstream parts.  The streaming side is *)
(* drained: every content_block_start opens a block and the deltas that    *)
(* follow are concatenated into it.                                        *)
(***************************************************************************)
MaxParts == 3

RECURSIVE SeqsUpTo(_, _)
SeqsUpTo(S, n) ==
    IF n = 0 THEN {<<>>}
    ELSE LET shorter == SeqsUpTo(S, n - 1)
         IN  shorter \cup {Append(q, x) : q \in shorter, x \in S}

ApplyEvent(blocks, ev) ==
    IF ev.type = "content_block_start"
    THEN Append(blocks, Block(ev.kind, <<>>, ev.payload))
    ELSE IF ev.type = "content_block_delta" /\ blocks # <<>>
    THEN IF ev.kind \in {"text_delta", "thinking_delta"}
         THEN [blocks EXCEPT ![Len(blocks)].text = @ \o ev.payload]
         ELSE IF ev.kind = "signature_delta"
         THEN [blocks EXCEPT ![Len(blocks)].signature = ev.payload]
         ELSE blocks
    ELSE blocks

RECURSIVE DrainBlocks(_, _)
DrainBlocks(out, blocks) ==
    IF out = <<>> THEN blocks
    ELSE DrainBlocks(Tail(out), ApplyEvent(blocks, Head(out)))

AggInit ==
    /\ agg_parts \in SeqsUpTo(Parts, MaxParts)
    /\ agg_blocks = <<>>
    /\ agg_events = <<>>
    /\ agg_pc = {}

AggIdle ==
    /\ agg_parts = <<>>
    /\ agg_blocks = <<>>
    /\ agg_events = <<>>
    /\ agg_pc = {}

\* the non-streaming path: NonStreamingProcessor.process over the parts
Aggregate ==
    /\ "aggregated" \notin agg_pc
    /\ agg_blocks' = NSP_process(agg_parts)
    /\ agg_pc' = agg_pc \cup {"aggregated"}
    /\ UNCHANGED <<agg_parts, agg_events, nonAggVars>>

\* the streaming path: the same parts through process_line, then finish()
Drain ==
    /\ "drained" \notin agg_pc
    /\ agg_events' = SP_finish(SP_process_line(SP_new, DataLine(agg_parts, ""))).out
    /\ agg_pc' = agg_pc \cup {"drained"}
    /\ UNCHANGED <<agg_parts, agg_blocks, nonAggVars>>

AggNext == Aggregate \/ Drain

(***************************************************************************)
(* OpenAIStreamingProcessor (lines 1901-2029)                              *)
(*                                                                         *)
(* The record holds the object's fields, `out`, the frames returned so     *)
(* far, and `stores`, the arguments of its global_thought_signature_store  *)
(* calls so far.  A frame is a chat.completion.chunk, given by the key of  *)
(* its delta and its finish_reason ("" for null), or the literal           *)
(* "data: [DONE]".                                                         *)
(***************************************************************************)
Frame(object, delta, payload, finish_reason) ==
    [object |-> object, delta |-> delta, payload |-> payload,
     finish_reason |-> finish_reason]

DoneFrame == Frame("[DONE]", "", <<>>, "")

OSP_new ==
    [started |-> FALSE, current_tool_index |-> -1, finished |-> FALSE,
     in_thinking_block |-> FALSE, out |-> <<>>, stores |-> <<>>]

OSP_format_chunk(o, delta, payload, finish_reason) ==
    [o EXCEPT !.out = Append(@, Frame("chunk", delta, payload, finish_reason))]

OSP_finish_reason(stop_reason) ==
    IF stop_reason = "tool_use" THEN "tool_calls"
    ELSE IF stop_reason = "max_tokens" THEN "length" ELSE "stop"

OSP_process_claude_event(o, ev) ==
    IF ev.type = "message_start"
    THEN IF ~o.started
         THEN OSP_format_chunk([o EXCEPT !.started = TRUE], "role", <<>>, "")
         ELSE o
    ELSE IF ev.type = "content_block_start"
    THEN IF ev.kind = "tool_use"
         THEN OSP_format_chunk([o EXCEPT !.current_tool_index = @ + 1],
                               "tool_calls", <<>>, "")
         ELSE IF ev.kind = "thinking"
         THEN [o EXCEPT !.in_thinking_block = TRUE]
         ELSE o
    ELSE IF ev.type = "content_block_stop"
    THEN [o EXCEPT !.in_thinking_block = FALSE]
    ELSE IF ev.type = "content_block_delta"
    THEN IF ev.kind = "text_delta"
         THEN IF ev.payload # <<>>
              THEN OSP_format_chunk(o, "content", ev.payload, "") ELSE o
         ELSE IF ev.kind = "thinking_delta"
         THEN IF ev.payload # <<>>
              THEN OSP_format_chunk(o, "reasoning_content", ev.payload, "") ELSE o
         ELSE IF ev.kind = "signature_delta"
         THEN IF ev.payload # <<>>
              THEN [o EXCEPT !.stores = Append(@, ev.payload)] ELSE o
         ELSE IF ev.kind = "input_json_delta"
         THEN IF ev.payload # <<>> /\ o.current_tool_index >= 0
              THEN OSP_format_chunk(o, "arguments", ev.payload, "") ELSE o
         ELSE o
    ELSE IF ev.type = "message_delta"
    THEN IF ~o.finished
         THEN [OSP_format_chunk(o, "", <<>>, OSP_finish_reason(ev.kind))
                  EXCEPT !.finished = TRUE]
         ELSE o
    ELSE IF ev.type = "message_stop"
    THEN LET o1 == IF ~o.finished
                   THEN [OSP_format_chunk(o, "", <<>>, "stop") EXCEPT !.finished = TRUE]
                   ELSE o
         IN  [o1 EXCEPT !.out = Append(@, DoneFrame)]
    ELSE o

OSP_finish(o) ==
    IF ~o.finished
    THEN [OSP_format_chunk(o, "", <<>>, "stop") EXCEPT !.out = Append(@, DoneFrame)]
    ELSE [o EXCEPT !.out = Append(@, DoneFrame)]

(***************************************************************************)
(* The upstream body and the handlers that read it                         *)
(* (lines 3174-3250 and 3339-3478)                                         *)
(*                                                                         *)
(* The upstream body is a sequence of lines, each followed by "\n"; the    *)
(* last "\n" may be missing.  On the wire a line is two pieces, its head   *)
(* and its tail, so that a transport chunk can end inside a line.  Text    *)
(* between two "\n" parses as the line when it is exactly that line's head *)
(* and tail; any other text is a line that process_line ignores (a head    *)
(* alone is cut-off JSON, a tail alone has no "data:" prefix).             *)
(***************************************************************************)
MaxUpLines == 2
MaxBudget == 2

NL == [line |-> JunkLine, piece |-> "\n"]
HeadOf(line) == [line |-> line, piece |-> "head"]
TailOf(line) == [line |-> line, piece |-> "tail"]

RECURSIVE Wire(_, _)
Wire(lines, final_newline) ==
    IF lines = <<>> THEN <<>>
    ELSE <<HeadOf(Head(lines)), TailOf(Head(lines))>>
         \o (IF Len(lines) = 1 /\ ~final_newline THEN <<>> ELSE <<NL>>)
         \o Wire(Tail(lines), final_newline)

\* str.split("\n"): the pieces between the newlines, the last one included
RECURSIVE SplitNL(_, _)
SplitNL(text, cur) ==
    IF text = <<>> THEN <<cur>>
    ELSE IF Head(text) = NL THEN <<cur>> \o SplitNL(Tail(text), <<>>)
    ELSE SplitNL(Tail(text), Append(cur, Head(text)))

\* strip, the "data:" prefix test and json.loads
ParseLine(text) ==
    IF /\ Len(text) = 2
       /\ text[1].piece = "head"
       /\ text[2].piece = "tail"
       /\ text[1].line = text[2].line
    THEN text[1].line
    ELSE JunkLine

UpLines ==
    {DataLine(<<MkPart(<<>>, <<"a">>, FALSE, <<>>, FALSE)>>, ""),
     DataLine(<<MkPart(<<>>, <<"a">>, TRUE, <<"s">>, FALSE)>>, ""),
     DataLine(<<MkPart(<<[args |-> TRUE]>>, <<>>, FALSE, <<>>, FALSE)>>, ""),
     DataLine(<<>>, "STOP"),
     DataLine(<<>>, "MAX_TOKENS")}

\* client budget: <<>> when the client stays, <<n>> when n more writes succeed
Budgets == {<<>>} \cup {<<n>> : n \in 0..MaxBudget}

Handlers == {"claude_streaming", "claude_non_streaming", "openai_streaming"}

H_new(kind, budget) ==
    [kind |-> kind, pc |-> "reading",
     claude |-> SP_new, openai |-> OSP_new, buffer |-> <<>>,
     client_disconnected |-> FALSE, collected_parts |-> <<>>, reply |-> <<>>,
     stop_reason |-> "",
     writes |-> <<>>, budget |-> budget]

\* _safe_write: the write is attempted and logged; it fails once the client is gone
WriteOk(st) == st.budget = <<>> \/ st.budget[1] > 0

SafeWrite(st, data) ==
    [st EXCEPT !.writes = Append(@, [data |-> data, ok |-> WriteOk(st)]),
               !.budget = IF st.budget # <<>> /\ st.budget[1] > 0
                          THEN <<st.budget[1] - 1>> ELSE @]

\* what a call appended to the result list
Returned(before, after) == SubSeq(after.out, Len(before.out) + 1, Len(after.out))

\* write what a call returned, if anything; a failed write sets client_disconnected
WriteEvents(st, events) ==
    IF events = <<>> THEN st
    ELSE IF WriteOk(st) THEN SafeWrite(st, events)
    ELSE [SafeWrite(st, events) EXCEPT !.client_disconnected = TRUE]

\* ---- _handle_claude_streaming_real: one line of a chunk
CS_returned(st, c1) == WriteEvents([st EXCEPT !.claude = c1], Returned(st.claude, c1))

CS_line(st, text) == CS_returned(st, SP_process_line(st.claude, ParseLine(text)))

\* the loop over the lines of a chunk, left after a failed write
RECURSIVE CS_lines(_, _)
CS_lines(st, texts) ==
    IF texts = <<>> \/ st.client_disconnected THEN st
    ELSE CS_lines(CS_line(st, Head(texts)), Tail(texts))

\* finish() is called and its events written only if the client is still there;
\* the result of this last write is not looked at
CS_finished(st, c1) ==
    IF Returned(st.claude, c1) # <<>>
    THEN SafeWrite([st EXCEPT !.claude = c1], Returned(st.claude, c1))
    ELSE [st EXCEPT !.claude = c1]

CS_close(st) ==
    IF ~st.client_disconnected THEN CS_finished(st, SP_finish(st.claude)) ELSE st

\* ---- _handle_claude_non_streaming_real: one line of a chunk
NS_collect(st, line) ==
    IF line.json /\ line.candidates # <<>>
    THEN [st EXCEPT !.collected_parts = @ \o line.candidates[1].parts]
    ELSE st

NS_line(st, text) == NS_collect(st, ParseLine(text))

\* lines 3241-3244: the response the handler builds for the processor, one
\* candidate holding the collected parts and nothing else (a key that is
\* absent reads as "")
NS_gemini_resp(st) == DataLine(st.collected_parts, "")

\* lines 3246-3248: process() and the reply
NS_reply(st) ==
    [st EXCEPT !.reply = NSP_process(st.collected_parts),
               !.stop_reason =
                   NSP_stop_reason(
                       NSP_process_parts(NSP_new, st.collected_parts).has_tool_call,
                       NS_gemini_resp(st))]

RECURSIVE NS_lines(_, _)
NS_lines(st, texts) ==
    IF texts = <<>> THEN st
    ELSE NS_lines(NS_line(st, Head(texts)), Tail(texts))

\* ---- _handle_openai_streaming_real: one event of a process_line call goes
\* through the OpenAI processor and what it returns is written
OA_returned(st, o1) == WriteEvents([st EXCEPT !.openai = o1], Returned(st.openai, o1))

OA_event(st, ev) == OA_returned(st, OSP_process_claude_event(st.openai, ev))

\* the loop over the events of one call, left when the write of this turn failed
LastWriteFailed(st, writes_before) ==
    Len(st.writes) > writes_before /\ ~st.writes[Len(st.writes)].ok

RECURSIVE OA_events(_, _)
RECURSIVE OA_next_event(_, _, _)
OA_next_event(st, writes_before, events) ==
    IF LastWriteFailed(st, writes_before) THEN st ELSE OA_events(st, events)

OA_events(st, events) ==
    IF events = <<>> THEN st
    ELSE OA_next_event(OA_event(st, Head(events)), Len(st.writes), Tail(events))

OA_convert(st, c1) == OA_events([st EXCEPT !.claude = c1], Returned(st.claude, c1))

OA_line(st, text) == OA_convert(st, SP_process_line(st.claude, ParseLine(text)))

\* the loop `while "\n" in buffer` over the complete lines of the buffer: a
\* failed write does not leave it
RECURSIVE OA_lines(_, _)
OA_lines(st, texts) ==
    IF texts = <<>> THEN st
    ELSE IF Head(texts) = <<>> THEN OA_lines(st, Tail(texts))
    ELSE OA_lines(OA_line(st, Head(texts)), Tail(texts))

OA_buffered(st, texts) ==
    OA_lines([st EXCEPT !.buffer = texts[Len(texts)]], SubSeq(texts, 1, Len(texts) - 1))

OA_chunk(st, chunk) == OA_buffered(st, SplitNL(st.buffer \o chunk, <<>>))

\* after the body: the rest of the buffer, finish() of both processors, each
\* only if the client is still there
OA_rest(st) ==
    IF ~st.client_disconnected /\ st.buffer # <<>> THEN OA_line(st, st.buffer) ELSE st

OA_finish_claude(st) ==
    IF ~st.client_disconnected THEN OA_convert(st, SP_finish(st.claude)) ELSE st

OA_finished(st, o1) == SafeWrite([st EXCEPT !.openai = o1], Returned(st.openai, o1))

OA_finish_openai(st) ==
    IF ~st.client_disconnected THEN OA_finished(st, OSP_finish(st.openai)) ELSE st

OA_close(st) == OA_finish_openai(OA_finish_claude(OA_rest(st)))

\* the store calls the OpenAI processor made during a step reach the global store
RECURSIVE StoreAll(_, _)
StoreAll(cur, sigs) ==
    IF sigs = <<>> THEN cur
    ELSE StoreAll(global_thought_signature_store(cur, Head(sigs)), Tail(sigs))

NewStores(before, after) ==
    SubSeq(after.openai.stores, Len(before.openai.stores) + 1, Len(after.openai.stores))

HandlerInit ==
    \E lines \in SeqsUpTo(UpLines, MaxUpLines), final_newline \in BOOLEAN,
       kind \in Handlers, budget \in Budgets :
        /\ kind = "claude_non_streaming" => budget = <<>>
        /\ lines = <<>> => final_newline
        /\ up_lines = lines
        /\ up_wire = Wire(lines, final_newline)
        /\ h = H_new(kind, budget)

HandlerIdle ==
    /\ up_lines = <<>>
    /\ up_wire = <<>>
    /\ h = H_new("none", <<>>)

\* resp.content.iter_any() yields the next n pieces of the body as one chunk
NextChunk(kind, n) ==
    /\ h.kind = kind
    /\ h.pc = "reading"
    /\ ~h.client_disconnected
    /\ n \in 1..Len(up_wire)
    /\ up_wire' = SubSeq(up_wire, n + 1, Len(up_wire))
    /\ UNCHANGED up_lines

\* the body has ended, or the loop was left because the client is gone
BodyOver(kind) ==
    /\ h.kind = kind
    /\ h.pc = "reading"
    /\ up_wire = <<>> \/ h.client_disconnected
    /\ UNCHANGED <<up_lines, up_wire>>

ClaudeStreamingChunk(n) ==
    /\ NextChunk("claude_streaming", n)
    /\ h' = CS_lines(h, SplitNL(SubSeq(up_wire, 1, n), <<>>))
    /\ UNCHANGED nonHandlerVars

ClaudeStreamingClose ==
    /\ BodyOver("claude_streaming")
    /\ h' = [CS_close(h) EXCEPT !.pc = "closed"]
    /\ UNCHANGED nonHandlerVars

ClaudeNonStreamingChunk(n) ==
    /\ NextChunk("claude_non_streaming", n)
    /\ h' = NS_lines(h, SplitNL(SubSeq(up_wire, 1, n), <<>>))
    /\ UNCHANGED nonHandlerVars

ClaudeNonStreamingClose ==
    /\ BodyOver("claude_non_streaming")
    /\ h' = [NS_reply(h) EXCEPT !.pc = "closed"]
    /\ UNCHANGED nonHandlerVars

OpenAIStreamingChunk(n) ==
    /\ NextChunk("openai_streaming", n)
    /\ \E st \in {OA_chunk(h, SubSeq(up_wire, 1, n))} :
           /\ h' = st
           /\ global_thought_signature' =
                  StoreAll(global_thought_signature, NewStores(h, st))
           /\ store_calls' = store_calls \o NewStores(h, st)
    /\ UNCHANGED <<clock, rlVars, poolVars, spVars, aggVars, transformVars, frontVars>>

OpenAIStreamingClose ==
    /\ BodyOver("openai_streaming")
    /\ \E st \in {OA_close(h)} :
           /\ h' = [st EXCEPT !.pc = "closed"]
           /\ global_thought_signature' =
                  StoreAll(global_thought_signature, NewStores(h, st))
           /\ store_calls' = store_calls \o NewStores(h, st)
    /\ UNCHANGED <<clock, rlVars, poolVars, spVars, aggVars, transformVars, frontVars>>

HandlerNext ==
    \/ \E n \in 1..Len(up_wire) : ClaudeStreamingChunk(n)
    \/ ClaudeStreamingClose
    \/ \E n \in 1..Len(up_wire) : ClaudeNonStreamingChunk(n)
    \/ ClaudeNonStreamingClose
    \/ \E n \in 1..Len(up_wire) : OpenAIStreamingChunk(n)
    \/ OpenAIStreamingClose

(***************************************************************************)
(* RequestTransformer (lines 1228-1474) with the thinking-block filter and *)
(* the thinking policy (lines 320-339 and 460-580)                         *)
(*                                                                         *)
(* A content block is [type, text, signature]: text is the text of a text  *)
(* block and the thinking of a thinking block.  A model name is the        *)
(* sequence of the pieces the code tests for.  An upstream part is         *)
(* [kind, text, thought, thoughtSignature].                                *)
(***************************************************************************)
\* "skip_thought_signature_validator", character by character
DUMMY_THOUGHT_SIGNATURE ==
    <<"s", "k", "i", "p", "_", "t", "h", "o", "u", "g", "h", "t", "_",
      "s", "i", "g", "n", "a", "t", "u", "r", "e", "_",
      "v", "a", "l", "i", "d", "a", "t", "o", "r">>
DUMMY_THOUGHT_TEXT == <<"Thinking...">>
PLACEHOLDER_TEXT == Rep(".", 3)
NO_CONTENT == <<"(no content)">>

\* text.strip() is empty
Blank(text) == \A i \in 1..Len(text) : text[i] = " "

\* sub in name, name.startswith(sub)
Contains(name, sub) ==
    \E i \in 1..(Len(name) - Len(sub) + 1) : SubSeq(name, i, i + Len(sub) - 1) = sub
StartsWith(name, sub) ==
    Len(name) >= Len(sub) /\ SubSeq(name, 1, Len(sub)) = sub

model_supports_thinking(model) ==
    \/ Contains(model, <<"-thinking">>)
    \/ Contains(model, <<"gemini-", "3-pro">>)
    \/ StartsWith(model, <<"claude-">>)

IsValidSignature(sig) == sig # <<>> /\ Len(sig) >= MIN_SIGNATURE_LENGTH

\* a filter that takes every thinking block for signed
has_valid_signature_always(block) == TRUE

has_valid_signature(block) ==
    \/ block.type # "thinking"
    \/ block.text = <<>> /\ block.signature # <<>>
    \/ IsValidSignature(block.signature)

MkBlock(type, text, signature) == [type |-> type, text |-> text, signature |-> signature]

\* what the filter puts in place of one block: one block or nothing
FilterBlock(block, global_sig) ==
    IF block.type = "thinking"
    THEN IF has_valid_signature(block) THEN <<block>>
         ELSE IF global_sig # None /\ IsValidSignature(global_sig[1])
         THEN <<MkBlock("thinking", block.text, global_sig[1])>>
         ELSE IF ~Blank(block.text) THEN <<MkBlock("text", block.text, <<>>)>>
         ELSE <<>>
    ELSE <<block>>

RECURSIVE FilterBlocks(_, _)
FilterBlocks(content, global_sig) ==
    IF content = <<>> THEN <<>>
    ELSE FilterBlock(Head(content), global_sig) \o FilterBlocks(Tail(content), global_sig)

AtLeastOneBlock(new_blocks) ==
    IF new_blocks = <<>> THEN <<MkBlock("text", <<>>, <<>>)>> ELSE new_blocks

FilterMessage(msg, global_sig) ==
    IF msg.role \notin {"assistant", "model"} THEN msg
    ELSE [msg EXCEPT !.content = AtLeastOneBlock(FilterBlocks(@, global_sig))]

filter_invalid_thinking_blocks(messages, global_sig) ==
    [i \in 1..Len(messages) |-> FilterMessage(messages[i], global_sig)]

HasBlock(content, type) == \E i \in 1..Len(content) : content[i].type = type

IsAssistant(msg) == msg.role \in {"assistant", "model"}

\* a policy that never finds the history incompatible
should_disable_thinking_due_to_history_never(messages) == FALSE
should_disable_thinking_due_to_history(messages) ==
    \E i \in 1..Len(messages) :
        /\ IsAssistant(messages[i])
        /\ \A j \in (i + 1)..Len(messages) : ~IsAssistant(messages[j])
        /\ HasBlock(messages[i].content, "tool_use")
        /\ ~HasBlock(messages[i].content, "thinking")

HasToolUse(messages) ==
    \E i \in 1..Len(messages) : HasBlock(messages[i].content, "tool_use")

\* computed by transform for its log line only
has_valid_signature_for_function_calls(messages, global_sig) ==
    \/ global_sig # None /\ IsValidSignature(global_sig[1])
    \/ \E i \in 1..Len(messages) :
           /\ IsAssistant(messages[i])
           /\ \E b \in 1..Len(messages[i].content) :
                  /\ messages[i].content[b].type = "thinking"
                  /\ IsValidSignature(messages[i].content[b].signature)

MkPart2(kind, text, thought, signature) ==
    [kind |-> kind, text |-> text, thought |-> thought, thoughtSignature |-> signature]

TextPart(text) == MkPart2("text", text, FALSE, <<>>)
ThoughtPart(text, signature) == MkPart2("text", text, TRUE, signature)

AddPart(acc, part) == [acc EXCEPT !.parts = Append(@, part)]

\* a thinking block behind another part is downgraded
ThinkingNotFirst_never(parts) == FALSE
ThinkingNotFirst(parts) == parts # <<>>

DowngradeToText(acc, text) ==
    IF ~Blank(text) THEN AddPart(acc, TextPart(text)) ELSE acc

BuildThinking(acc, block, is_thinking, allow_dummy) ==
    IF ThinkingNotFirst(acc.parts) THEN DowngradeToText(acc, block.text)
    ELSE IF ~is_thinking THEN DowngradeToText(acc, block.text)
    ELSE IF Blank(block.text) THEN AddPart(acc, TextPart(PLACEHOLDER_TEXT))
    ELSE IF IsValidSignature(block.signature)
    THEN AddPart(acc, ThoughtPart(block.text, block.signature))
    ELSE IF ~allow_dummy
    THEN [AddPart(acc, TextPart(block.text)) EXCEPT !.stripped = TRUE]
    ELSE AddPart(acc, ThoughtPart(block.text, DUMMY_THOUGHT_SIGNATURE))

\* a resolution that asks the store before the block
ToolUseSignature_store_first(block, allow_dummy, global_sig) ==
    IF global_sig # None /\ IsValidSignature(global_sig[1]) THEN global_sig[1]
    ELSE IF IsValidSignature(block.signature) THEN block.signature
    ELSE IF allow_dummy THEN DUMMY_THOUGHT_SIGNATURE
    ELSE <<>>

\* lines 1454-1464; <<>> stands for a part without the key
ToolUseSignature(block, allow_dummy, global_sig) ==
    IF IsValidSignature(block.signature) THEN block.signature
    ELSE IF global_sig # None /\ IsValidSignature(global_sig[1]) THEN global_sig[1]
    ELSE IF allow_dummy THEN DUMMY_THOUGHT_SIGNATURE
    ELSE <<>>

\* str.strip() for the space character
RECURSIVE LStrip(_)
LStrip(text) ==
    IF text # <<>> /\ Head(text) = " " THEN LStrip(Tail(text)) ELSE text

RECURSIVE RStrip(_)
RStrip(text) ==
    IF text # <<>> /\ text[Len(text)] = " "
    THEN RStrip(SubSeq(text, 1, Len(text) - 1)) ELSE text

Strip(text) == RStrip(LStrip(text))

\* A content that is a Python string is the one-block sequence of type "str".
BuildBlock(acc, block, is_thinking, allow_dummy, global_sig) ==
    IF block.type = "str"
    THEN IF ~Blank(block.text) /\ block.text # NO_CONTENT
         THEN AddPart(acc, TextPart(Strip(block.text))) ELSE acc
    ELSE IF block.type = "text"
    THEN IF ~Blank(block.text) /\ block.text # NO_CONTENT
         THEN AddPart(acc, TextPart(block.text)) ELSE acc
    ELSE IF block.type = "thinking"
    THEN BuildThinking(acc, block, is_thinking, allow_dummy)
    ELSE IF block.type = "image"
    THEN AddPart(acc, MkPart2("inlineData", <<>>, FALSE, <<>>))
    ELSE IF block.type = "tool_use"
    THEN AddPart(acc, MkPart2("functionCall", <<>>, FALSE,
                              ToolUseSignature(block, allow_dummy, global_sig)))
    ELSE IF block.type = "tool_result"
    THEN AddPart(acc, MkPart2("functionResponse", <<>>, FALSE, <<>>))
    ELSE acc

RECURSIVE BuildBlocks(_, _, _, _, _)
BuildBlocks(acc, content, is_thinking, allow_dummy, global_sig) ==
    IF content = <<>> THEN acc
    ELSE BuildBlocks(BuildBlock(acc, Head(content), is_thinking, allow_dummy, global_sig),
                     Tail(content), is_thinking, allow_dummy, global_sig)

\* _build_parts: the parts of one message and whether a block was stripped
build_parts(content, is_thinking, allow_dummy, global_sig) ==
    BuildBlocks([parts |-> <<>>, stripped |-> FALSE], content,
                is_thinking, allow_dummy, global_sig)

UpstreamRole(role) == IF role = "assistant" THEN "model" ELSE role

HasThought(parts) == \E i \in 1..Len(parts) : parts[i].thought

\* a builder that never inserts the dummy thought
WithLeadingThought_never(role, parts, is_thinking, allow_dummy) == parts

\* lines 1357-1362
WithLeadingThought(role, parts, is_thinking, allow_dummy) ==
    IF allow_dummy /\ role = "model" /\ is_thinking /\ ~HasThought(parts) /\ parts # <<>>
    THEN <<ThoughtPart(DUMMY_THOUGHT_TEXT, DUMMY_THOUGHT_SIGNATURE)>> \o parts
    ELSE parts

\* what one message adds to contents: one entry, or nothing when it has no parts
BuildMessage(role, built, is_thinking, allow_dummy) ==
    IF built.parts = <<>> THEN <<>>
    ELSE <<[role |-> role,
            parts |-> WithLeadingThought(role, built.parts, is_thinking, allow_dummy)]>>

RECURSIVE build_contents(_, _, _, _)
build_contents(messages, is_thinking, allow_dummy, global_sig) ==
    IF messages = <<>> THEN <<>>
    ELSE BuildMessage(UpstreamRole(Head(messages).role),
                      build_parts(Head(messages).content, is_thinking, allow_dummy, global_sig),
                      is_thinking, allow_dummy)
         \o build_contents(Tail(messages), is_thinking, allow_dummy, global_sig)

AnyStripped(messages, is_thinking, allow_dummy, global_sig) ==
    \E i \in 1..Len(messages) :
        build_parts(messages[i].content, is_thinking, allow_dummy, global_sig).stripped

IsThinking(req, messages) ==
    /\ req.thinking
    /\ model_supports_thinking(req.model)
    /\ ~should_disable_thinking_due_to_history(messages)

\* a transformer that lets every model take the dummy signature
AllowDummy_always(model) == TRUE
AllowDummy(model) == StartsWith(model, <<"gemini-">>)

\* the envelope built from the filtered messages
Envelope(req, messages, is_thinking, allow_dummy, global_sig) ==
    [model |-> req.model,
     contents |-> build_contents(messages, is_thinking, allow_dummy, global_sig),
     thinkingConfig |->
         is_thinking /\ ~AnyStripped(messages, is_thinking, allow_dummy, global_sig)]

transform(req, messages, global_sig) ==
    Envelope(req, messages, IsThinking(req, messages), AllowDummy(req.model), global_sig)

\* ---- the requests
MaxMsgs == 2
MaxBlocks == 2

MappedModels ==
    {<<"gemini-", "3-pro", "-high">>, <<"gemini-", "2.5-flash">>,
     <<"claude-", "sonnet-4", "-5">>}

BlockSignatures ==
    {<<>>, Rep("x", MIN_SIGNATURE_LENGTH - 1), Rep("y", MIN_SIGNATURE_LENGTH),
     DUMMY_THOUGHT_SIGNATURE}

AssistantBlocks ==
    {MkBlock("text", <<"t">>, <<>>), MkBlock("tool_use", <<>>, <<>>),
     MkBlock("tool_use", <<>>, DUMMY_THOUGHT_SIGNATURE),
     MkBlock("tool_use", <<>>, Rep("z", MIN_SIGNATURE_LENGTH))}
    \cup {MkBlock("thinking", <<"k">>, sig) : sig \in BlockSignatures}
    \cup {MkBlock("thinking", <<>>, Rep("x", MIN_SIGNATURE_LENGTH - 1)),
          MkBlock("thinking", <<>>, <<>>)}

\* the last one is a thinking block echoed in a user turn, which the filter
\* does not look at
UserContents ==
    {<<MkBlock("text", <<"t">>, <<>>)>>, <<MkBlock("tool_result", <<>>, <<>>)>>,
     <<MkBlock("image", <<>>, <<>>), MkBlock("text", <<" ">>, <<>>)>>,
     <<MkBlock("thinking", <<"k">>, Rep("x", MIN_SIGNATURE_LENGTH - 1))>>}

Messages ==
    {[role |-> "user", content |-> c] : c \in UserContents}
    \cup {[role |-> "assistant", content |-> c] : c \in SeqsUpTo(AssistantBlocks, MaxBlocks)}

StoredSignatures ==
    {None, Some(DUMMY_THOUGHT_SIGNATURE), Some(Rep("g", MIN_SIGNATURE_LENGTH))}

TransformInit ==
    /\ \E messages \in SeqsUpTo(Messages, MaxMsgs), thinking \in BOOLEAN,
          model \in MappedModels :
           tr_req = [messages |-> messages, thinking |-> thinking, model |-> model]
    /\ global_thought_signature \in StoredSignatures
    /\ store_calls = global_thought_signature
    /\ tr_messages = tr_req.messages
    /\ tr_env = <<>>

TransformIdle ==
    /\ tr_req = [messages |-> <<>>, thinking |-> FALSE, model |-> <<>>]
    /\ tr_messages = <<>>
    /\ tr_env = <<>>

\* transform(): the message list is filtered in place, then the envelope is built
Transform ==
    /\ tr_env = <<>>
    /\ \E messages \in {filter_invalid_thinking_blocks(tr_messages, global_thought_signature)} :
           /\ tr_messages' = messages
           /\ tr_env' = <<transform(tr_req, messages, global_thought_signature)>>
    /\ UNCHANGED <<tr_req, nonTransformVars>>

TransformNext == Transform

(***************************************************************************)
(* ResponsesStreamingProcessor (lines 2299-2682).  The processor is a      *)
(* record; out holds the events it has returned, in order, and stores the  *)
(* signatures it has passed to the global store.  An event is              *)
(* [type, sequence_number, output_index, content_index, item, text]: item  *)
(* is the type of the output item the event is about.                      *)
(***************************************************************************)
SUMMARY_LENGTH == 500

RSP_new ==
    [started |-> FALSE, finished |-> FALSE, sequence_number |-> 0,
     current_output_index |-> -1, current_content_index |-> -1,
     in_reasoning |-> FALSE, in_message |-> FALSE,
     current_text |-> <<>>, current_reasoning |-> <<>>,
     stores |-> <<>>, out |-> <<>>]

\* a processor that numbers an event without advancing the counter
RSP_format_event_stuck(s, type, item, text) ==
    [s EXCEPT !.out = Append(@, [type |-> type,
                                 sequence_number |-> s.sequence_number + 1,
                                 output_index |-> s.current_output_index,
                                 content_index |-> s.current_content_index,
                                 item |-> item, text |-> text])]

\* _format_event with _next_seq
RSP_format_event(s, type, item, text) ==
    [s EXCEPT !.sequence_number = @ + 1,
              !.out = Append(@, [type |-> type,
                                 sequence_number |-> s.sequence_number + 1,
                                 output_index |-> s.current_output_index,
                                 content_index |-> s.current_content_index,
                                 item |-> item, text |-> text])]

RSP_emit_response_created(s) == RSP_format_event(s, "response.created", "", <<>>)

RSP_emit_output_item_added(s, item) ==
    RSP_format_event([s EXCEPT !.current_output_index = @ + 1],
                     "response.output_item.added", item, <<>>)

RSP_emit_content_part_added(s) ==
    RSP_format_event([s EXCEPT !.current_content_index = @ + 1],
                     "response.content_part.added", "message", <<>>)

RSP_emit_text_delta(s, delta) ==
    RSP_format_event(s, "response.output_text.delta", "message", delta)

\* text[:n]
Truncate(text, n) == IF Len(text) > n THEN SubSeq(text, 1, n) ELSE text

RSP_close_reasoning(s) ==
    IF s.in_reasoning
    THEN RSP_format_event([s EXCEPT !.in_reasoning = FALSE], "response.output_item.done",
                          "reasoning", Truncate(s.current_reasoning, SUMMARY_LENGTH))
    ELSE s

RSP_item_done(s) ==
    RSP_format_event(s, "response.output_item.done", "message", s.current_text)

RSP_part_done(s) ==
    RSP_format_event(s, "response.content_part.done", "message", s.current_text)

RSP_text_done(s) ==
    RSP_format_event(s, "response.output_text.done", "message", s.current_text)

\* an arriving function call closes the open message
RSP_close_message_for_call(s) ==
    IF s.in_message
    THEN RSP_item_done(RSP_part_done([s EXCEPT !.in_message = FALSE]))
    ELSE s

\* _emit_finish closes the open message
RSP_close_message_for_finish(s) ==
    IF s.in_message
    THEN RSP_item_done(RSP_part_done(RSP_text_done([s EXCEPT !.in_message = FALSE])))
    ELSE s

\* json.dumps(fc.get("args", {}))
ArgsText(fc) == IF fc.args THEN <<"{", "k", "}">> ELSE <<"{", "}">>

RSP_call_events(s, args) ==
    RSP_format_event(
        RSP_format_event(
            RSP_format_event(RSP_emit_output_item_added(s, "function_call"),
                             "response.function_call_arguments.delta", "function_call", args),
            "response.function_call_arguments.done", "function_call", args),
        "response.output_item.done", "function_call", args)

RSP_function_call(s, fc) ==
    RSP_call_events(RSP_close_message_for_call(RSP_close_reasoning(s)), ArgsText(fc))

RSP_open_reasoning(s) ==
    IF ~s.in_reasoning
    THEN RSP_emit_output_item_added(
             [s EXCEPT !.in_reasoning = TRUE, !.current_reasoning = <<>>], "reasoning")
    ELSE s

RSP_thought(s, text) ==
    [RSP_open_reasoning(s) EXCEPT !.current_reasoning = @ \o text]

RSP_open_message(s) ==
    IF ~s.in_message
    THEN RSP_emit_content_part_added(
             RSP_emit_output_item_added(
                 [s EXCEPT !.in_message = TRUE, !.current_text = <<>>,
                           !.current_content_index = -1], "message"))
    ELSE s

RSP_append_text(s, text) ==
    RSP_emit_text_delta([s EXCEPT !.current_text = @ \o text], text)

RSP_text(s, text) ==
    IF text # <<>> THEN RSP_append_text(RSP_open_message(RSP_close_reasoning(s)), text)
    ELSE s

RSP_store(s, signature) ==
    IF signature # <<>> THEN [s EXCEPT !.stores = Append(@, signature)] ELSE s

RSP_dispatch(s, part) ==
    IF part.thought THEN RSP_thought(s, part.text)
    ELSE IF part.functionCall # <<>> THEN RSP_function_call(s, part.functionCall[1])
    ELSE RSP_text(s, part.text)

RSP_process_part(s, part) == RSP_dispatch(RSP_store(s, part.thoughtSignature), part)

RECURSIVE RSP_process_parts(_, _)
RSP_process_parts(s, parts) ==
    IF parts = <<>> THEN s
    ELSE RSP_process_parts(RSP_process_part(s, Head(parts)), Tail(parts))

RSP_status(finish_reason) ==
    IF finish_reason = "MAX_TOKENS" THEN <<"incomplete">> ELSE <<"completed">>

RSP_emit_finish(s, finish_reason) ==
    [RSP_format_event(RSP_close_reasoning(RSP_close_message_for_finish(s)),
                      "response.completed", "", RSP_status(finish_reason))
        EXCEPT !.finished = TRUE]

RSP_start(s) ==
    IF ~s.started THEN RSP_emit_response_created([s EXCEPT !.started = TRUE]) ELSE s

RSP_line_parts(s, line) ==
    IF line.candidates # <<>> THEN RSP_process_parts(s, line.candidates[1].parts) ELSE s

RSP_line_finish(s, line) ==
    IF line.candidates # <<>> /\ line.candidates[1].finishReason # "" /\ ~s.finished
    THEN RSP_emit_finish(s, line.candidates[1].finishReason)
    ELSE s

RSP_process_line(s, line) ==
    IF ~line.json THEN s
    ELSE RSP_line_finish(RSP_line_parts(RSP_start(s), line), line)

RSP_finish(s) == IF ~s.finished THEN RSP_emit_finish(s, "STOP") ELSE s

RSP_new_stores(before, after) ==
    SubSeq(after.stores, Len(before.stores) + 1, Len(after.stores))

ResponsesInit ==
    /\ rs = RSP_new
    /\ rs_lines = <<>>
    /\ rs_finished = FALSE

ResponsesIdle == ResponsesInit

\* the handler passes one upstream line to process_line
ResponsesProcessLine(line) ==
    /\ ~rs_finished
    /\ Len(rs_lines) < MaxLines
    /\ \E st \in {RSP_process_line(rs, line)} :
           /\ rs' = st
           /\ global_thought_signature' =
                  StoreAll(global_thought_signature, RSP_new_stores(rs, st))
           /\ store_calls' = store_calls \o RSP_new_stores(rs, st)
    /\ rs_lines' = Append(rs_lines, line)
    /\ UNCHANGED <<rs_finished, nonResponsesVars>>

\* the body has ended: the handler calls finish()
ResponsesFinish ==
    /\ ~rs_finished
    /\ rs' = RSP_finish(rs)
    /\ rs_finished' = TRUE
    /\ UNCHANGED <<rs_lines, storeVars, nonResponsesVars>>

ResponsesNext ==
    \/ \E line \in Lines : ResponsesProcessLine(line)
    \/ ResponsesFinish

(***************************************************************************)
(* RequestTransformer._build_system_instruction (lines 1315-1344).  A      *)
(* system text is a sequence of pieces, cut so that the phrase the code    *)
(* looks for is one piece; the identity preamble is that phrase between    *)
(* what precedes and what follows it.  The system field is <<>> when       *)
(* absent, [str |-> text] for a string, [list |-> blocks] for a list.      *)
(***************************************************************************)
IDENTITY_PHRASE == "You are Antigravity"

ANTIGRAVITY_IDENTITY ==
    <<"<identity>", IDENTITY_PHRASE, ", a powerful agentic AI coding assistant ...">>

HasIdentityPhrase(text) == Contains(text, <<IDENTITY_PHRASE>>)

SysBlock(type, text) == [type |-> type, text |-> text]

\* the blocks of a list that become user parts
KeptBlock(block) == block.type = "text" /\ ~Blank(block.text)

RECURSIVE UserPartsOfList(_)
UserPartsOfList(blocks) ==
    IF blocks = <<>> THEN <<>>
    ELSE (IF KeptBlock(Head(blocks)) THEN <<[text |-> Head(blocks).text]>> ELSE <<>>)
         \o UserPartsOfList(Tail(blocks))

IsStr(system) == "str" \in DOMAIN system
IsList(system) == "list" \in DOMAIN system

UserParts(system) ==
    IF system = <<>> THEN <<>>
    ELSE IF IsStr(system)
    THEN IF system.str # <<>> /\ ~Blank(system.str) THEN <<[text |-> system.str]>> ELSE <<>>
    ELSE IF system.list # <<>> THEN UserPartsOfList(system.list)
    ELSE <<>>

\* user_has_identity: a kept text contains the phrase
UserHasIdentity(user_parts) ==
    \E i \in 1..Len(user_parts) : HasIdentityPhrase(user_parts[i].text)

IdentityParts(enable_identity_patch, user_parts) ==
    IF enable_identity_patch /\ ~UserHasIdentity(user_parts)
    THEN <<[text |-> ANTIGRAVITY_IDENTITY]>> ELSE <<>>

SystemInstruction(enable_identity_patch, parts) ==
    IF parts # <<>> THEN Some([role |-> "user", parts |-> parts])
    ELSE IF enable_identity_patch
    THEN Some([role |-> "user", parts |-> <<[text |-> ANTIGRAVITY_IDENTITY]>>])
    ELSE None

build_system_instruction(enable_identity_patch, user_parts) ==
    SystemInstruction(enable_identity_patch,
                      IdentityParts(enable_identity_patch, user_parts) \o user_parts)

\* ---- the system fields
MaxPieces == 3
MaxSysBlocks == 2

SysPieces == {" ", "be brief", IDENTITY_PHRASE, ANTIGRAVITY_IDENTITY[1], ANTIGRAVITY_IDENTITY[3]}

SysBlocks ==
    {SysBlock("text", text) :
        text \in {<<>>, <<" ">>, <<"be brief">>, <<IDENTITY_PHRASE, " ">>, ANTIGRAVITY_IDENTITY}}
    \cup {SysBlock("image", <<>>)}

Systems ==
    {<<>>}
    \cup {[str |-> text] : text \in SeqsUpTo(SysPieces, MaxPieces)}
    \cup {[list |-> blocks] : blocks \in SeqsUpTo(SysBlocks, MaxSysBlocks)}

SystemInit ==
    /\ si_system \in Systems
    /\ si_out = <<>>

SystemIdle ==
    /\ si_system = <<>>
    /\ si_out = <<>>

\* transform() builds the system instruction; the proxy's transformer is made
\* with enable_identity_patch left at its default (line 3072)
BuildSystemInstruction ==
    /\ si_out = <<>>
    /\ si_out' = <<build_system_instruction(TRUE, UserParts(si_system))>>
    /\ UNCHANGED <<si_system, nonSystemVars>>

SystemNext == BuildSystemInstruction

(***************************************************************************)
(* Model mapping (lines 162-184 and 288-313).  A model name is a sequence  *)
(* of pieces cut so that every prefix and every substring the code tests   *)
(* for begins and ends between two pieces.                                 *)
(***************************************************************************)
SUPPORTED_MODELS ==
    {<<"claude-", "opus-4", "-5", "-thinking">>, <<"claude-", "sonnet-4", "-5">>,
     <<"claude-", "sonnet-4", "-5", "-thinking">>,
     <<"gemini-", "2.5-flash">>, <<"gemini-", "2.5-flash", "-lite">>,
     <<"gemini-", "2.5-flash", "-thinking">>,
     <<"gemini-", "3-flash">>, <<"gemini-", "3-pro", "-low">>,
     <<"gemini-", "3-pro", "-high">>, <<"gemini-", "3-pro", "-image">>}

PREFIX_MAPPING ==
    << <<<<"gemini-", "2.5-flash", "-image">>, <<"gemini-", "3-pro", "-image">>>>,
       <<<<"gemini-", "3-pro", "-image">>, <<"gemini-", "3-pro", "-image">>>>,
       <<<<"gemini-", "3-flash">>, <<"gemini-", "3-flash">>>>,
       <<<<"claude-", "3-5-sonnet">>, <<"claude-", "sonnet-4", "-5">>>>,
       <<<<"claude-", "sonnet-4", "-5">>, <<"claude-", "sonnet-4", "-5">>>>,
       <<<<"claude-", "haiku-4", "-5">>, <<"claude-", "sonnet-4", "-5">>>>,
       <<<<"claude-", "opus-4", "-5">>, <<"claude-", "opus-4", "-5", "-thinking">>>>,
       <<<<"claude-", "3-haiku">>, <<"claude-", "sonnet-4", "-5">>>>,
       <<<<"claude-", "sonnet-4">>, <<"claude-", "sonnet-4", "-5">>>>,
       <<<<"claude-", "haiku-4">>, <<"claude-", "sonnet-4", "-5">>>>,
       <<<<"claude-", "opus-4">>, <<"claude-", "opus-4", "-5", "-thinking">>>>,
       <<<<"gemini-", "3-pro">>, <<"gemini-", "3-pro", "-high">>>>,
       <<<<"gpt-", "4">>, <<"claude-", "sonnet-4", "-5">>>>,
       <<<<"gpt-", "3.5">>, <<"gemini-", "2.5-flash">>>> >>

\* the target of the first prefix that matches, or nothing
RECURSIVE FirstPrefixTarget(_, _)
FirstPrefixTarget(requested_model, mapping) ==
    IF mapping = <<>> THEN None
    ELSE IF StartsWith(requested_model, Head(mapping)[1]) THEN Some(Head(mapping)[2])
    ELSE FirstPrefixTarget(requested_model, Tail(mapping))

PassThrough(requested_model) ==
    IF StartsWith(requested_model, <<"gemini-">>) THEN requested_model
    ELSE IF StartsWith(requested_model, <<"claude-">>) THEN requested_model
    ELSE <<"claude-", "sonnet-4", "-5">>

MappedByPrefix(requested_model, target) ==
    IF target # None THEN target[1] ELSE PassThrough(requested_model)

get_mapped_model(requested_model) ==
    IF requested_model \in SUPPORTED_MODELS THEN requested_model
    ELSE MappedByPrefix(requested_model, FirstPrefixTarget(requested_model, PREFIX_MAPPING))

(***************************************************************************)
(* GeminiConverter.gemini_to_claude (lines 661-817): contents and thinking *)
(* configuration.  A Gemini part is [kind, text, thought, thoughtSignature]*)
(***************************************************************************)
DEFAULT_THINKING_BUDGET == 10000
FLASH_MAX_BUDGET == 24576

G2C_block(part) ==
    IF part.kind = "text"
    THEN IF part.thought THEN <<MkBlock("thinking", part.text, part.thoughtSignature)>>
         ELSE IF ~Blank(part.text) THEN <<MkBlock("text", part.text, <<>>)>>
         ELSE <<>>
    ELSE IF part.kind = "functionCall"
    THEN <<MkBlock("tool_use", <<>>, part.thoughtSignature)>>
    ELSE IF part.kind = "functionResponse" THEN <<MkBlock("tool_result", <<>>, <<>>)>>
    ELSE IF part.kind = "inlineData" THEN <<MkBlock("image", <<>>, <<>>)>>
    ELSE <<>>

RECURSIVE G2C_blocks(_)
G2C_blocks(parts) ==
    IF parts = <<>> THEN <<>> ELSE G2C_block(Head(parts)) \o G2C_blocks(Tail(parts))

G2C_role(role, claude_content) ==
    IF HasBlock(claude_content, "tool_result") THEN "user"
    ELSE IF role = "model" THEN "assistant"
    ELSE role

\* a single text block becomes a string content
G2C_content(claude_content) ==
    IF Len(claude_content) = 1 /\ claude_content[1].type = "text"
    THEN <<MkBlock("str", claude_content[1].text, <<>>)>>
    ELSE claude_content

G2C_message(role, claude_content) ==
    IF claude_content = <<>> THEN <<>>
    ELSE <<[role |-> G2C_role(role, claude_content),
            content |-> G2C_content(claude_content)]>>

RECURSIVE G2C_messages(_)
G2C_messages(contents) ==
    IF contents = <<>> THEN <<>>
    ELSE G2C_message(Head(contents).role, G2C_blocks(Head(contents).parts))
         \o G2C_messages(Tail(contents))

G2C_budget(thinking_config) ==
    IF thinking_config.thinkingBudget = None THEN DEFAULT_THINKING_BUDGET
    ELSE thinking_config.thinkingBudget[1]

G2C_thinking(thinkingConfig) ==
    IF thinkingConfig # None /\ thinkingConfig[1].includeThoughts
    THEN Some([budget_tokens |-> G2C_budget(thinkingConfig[1])])
    ELSE None

gemini_to_claude(gemini_req, model) ==
    [model |-> model,
     messages |-> G2C_messages(gemini_req.contents),
     thinking |-> G2C_thinking(gemini_req.thinkingConfig)]

(***************************************************************************)
(* RequestTransformer._build_generation_config (lines 1486-1507): the      *)
(* thinkingConfig of the envelope, <<>> when there is none                 *)
(***************************************************************************)
RequestedBudget(req) ==
    IF req.thinking = None THEN 0 ELSE req.thinking[1].budget_tokens

ClampBudget(model, budget) ==
    IF Contains(model, <<"gemini-", "2.5-flash">>) /\ budget > FLASH_MAX_BUDGET
    THEN FLASH_MAX_BUDGET ELSE budget

BudgetField(budget) == IF budget > 0 THEN Some(budget) ELSE None

build_generation_config(req, is_thinking) ==
    IF is_thinking
    THEN Some([includeThoughts |-> TRUE,
               thinkingBudget |-> BudgetField(ClampBudget(req.model, RequestedBudget(req)))])
    ELSE None

(***************************************************************************)
(* handle_gemini_stream_generate from the mapping of the model to the      *)
(* envelope it hands to forward_request (lines 4557-4593)                  *)
(***************************************************************************)
CanEnableThinking(claude_req, config, mapped_model) ==
    /\ config.enable_thinking
    /\ model_supports_thinking(mapped_model)
    /\ ~should_disable_thinking_due_to_history(claude_req.messages)

InjectThinking(claude_req, config, can_enable_thinking) ==
    IF can_enable_thinking /\ claude_req.thinking = None
    THEN [claude_req EXCEPT !.thinking = Some([budget_tokens |-> config.thinking_budget])]
    ELSE IF config.enable_thinking /\ ~can_enable_thinking
    THEN [claude_req EXCEPT !.thinking = None]
    ELSE claude_req

SmartThinking(claude_req, config, mapped_model) ==
    InjectThinking(claude_req, config, CanEnableThinking(claude_req, config, mapped_model))

GeminiClaudeReq(gemini_req, config, mapped_model) ==
    SmartThinking(gemini_to_claude(gemini_req, mapped_model), config, mapped_model)

TransformReq(claude_req) ==
    [messages |-> claude_req.messages, thinking |-> claude_req.thinking # None,
     model |-> claude_req.model]

WithGenerationConfig(claude_req, env) ==
    [model |-> env.model, contents |-> env.contents,
     thinkingConfig |-> build_generation_config(claude_req, env.thinkingConfig)]

\* transform() with the generation config spelled out
transform_full(claude_req, global_sig) ==
    WithGenerationConfig(claude_req,
        transform(TransformReq(claude_req),
                  filter_invalid_thinking_blocks(claude_req.messages, global_sig),
                  global_sig))

\* ---- the requests
GeminiModels ==
    {<<"gemini-", "2.5-flash">>, <<"gemini-", "2.5-flash", "-thinking">>,
     <<"gemini-", "3-pro">>, <<"gpt-", "3.5">>, <<"claude-", "opus-4">>, <<"llama">>}

ThinkingBudgets == {0, FLASH_MAX_BUDGET, FLASH_MAX_BUDGET + 1, 30000}

GeminiThinkingConfigs ==
    {None, Some([includeThoughts |-> FALSE, thinkingBudget |-> None]),
     Some([includeThoughts |-> TRUE, thinkingBudget |-> None])}
    \cup {Some([includeThoughts |-> TRUE, thinkingBudget |-> Some(b)]) : b \in ThinkingBudgets}

GeminiContent(role, parts) == [role |-> role, parts |-> parts]

GeminiHistories ==
    {<<GeminiContent("user", <<TextPart(<<"h", "i">>)>>)>>,
     <<GeminiContent("user", <<TextPart(<<" ", "h", "i">>)>>),
       GeminiContent("model", <<MkPart2("functionCall", <<>>, FALSE, <<>>)>>),
       GeminiContent("function", <<MkPart2("functionResponse", <<>>, FALSE, <<>>)>>)>>,
     <<GeminiContent("user", <<TextPart(<<"h", "i">>)>>),
       GeminiContent("model", <<ThoughtPart(<<"k">>, Rep("y", MIN_SIGNATURE_LENGTH)),
                                MkPart2("functionCall", <<>>, FALSE, <<>>)>>),
       GeminiContent("user", <<MkPart2("functionResponse", <<>>, FALSE, <<>>)>>)>>,
     <<GeminiContent("user", <<MkPart2("inlineData", <<>>, FALSE, <<>>),
                               TextPart(<<" ">>)>>),
       GeminiContent("model", <<ThoughtPart(<<"k">>, <<>>), TextPart(<<"t">>)>>)>>}

ProxyConfigs ==
    [enable_thinking : BOOLEAN, thinking_budget : {DEFAULT_THINKING_BUDGET, 30000}]

GeminiInit ==
    /\ gm_req \in [model : GeminiModels, contents : GeminiHistories,
                    thinkingConfig : GeminiThinkingConfigs, config : ProxyConfigs]
    /\ global_thought_signature \in StoredSignatures
    /\ store_calls = global_thought_signature
    /\ gm_claude = <<>>
    /\ gm_env = <<>>

GeminiIdle ==
    /\ gm_req = [model |-> <<>>, contents |-> <<>>, thinkingConfig |-> None,
                 config |-> [enable_thinking |-> TRUE,
                             thinking_budget |-> DEFAULT_THINKING_BUDGET]]
    /\ gm_claude = <<>>
    /\ gm_env = <<>>

GeminiStreamGenerate ==
    /\ gm_env = <<>>
    /\ \E claude_req \in {GeminiClaudeReq(gm_req, gm_req.config,
                                           get_mapped_model(gm_req.model))} :
           /\ gm_claude' = <<claude_req>>
           /\ gm_env' = <<transform_full(claude_req, global_thought_signature)>>
    /\ UNCHANGED <<gm_req, nonGeminiVars>>

GeminiNext == GeminiStreamGenerate

(***************************************************************************)
(* The inbound adapters: OpenAIConverter.openai_to_claude (lines 907-1100),*)
(* ResponsesAPIConverter.responses_to_claude (lines 2044-2190) and         *)
(* GeminiConverter.gemini_to_claude (above).  A content is a sequence of   *)
(* blocks; a Python string is the one block of type "str", null the one    *)
(* block of type "none".  A data URL starts with the piece "data:" and     *)
(* holds the piece ",".                                                    *)
(***************************************************************************)
INVALID_VALUES == {<<>>, <<"[undefined]">>, <<"undefined">>, <<"null">>, <<"[null]">>}

is_valid_value(v) == v \notin INVALID_VALUES

StrContent(text) == <<MkBlock("str", text, <<>>)>>
NoneContent == <<MkBlock("none", <<>>, <<>>)>>
IsStrContent(content) == Len(content) = 1 /\ content[1].type = "str"
IsNoneContent(content) == Len(content) = 1 /\ content[1].type = "none"

IsDataUrl(url) ==
    /\ url # <<>>
    /\ url[1] = "data:"
    /\ \E i \in 2..Len(url) : url[i] = ","

\* one item of a list content (lines 973-977 and 1014-1033)
O2C_text_item(item) ==
    IF item.type = "text" /\ is_valid_value(item.text)
    THEN <<MkBlock("text", item.text, <<>>)>>
    ELSE <<>>

O2C_user_item(item) ==
    IF item.type = "image_url"
    THEN IF IsDataUrl(item.text) THEN <<MkBlock("image", <<>>, <<>>)>> ELSE <<>>
    ELSE O2C_text_item(item)

RECURSIVE O2C_text_items(_)
O2C_text_items(content) ==
    IF content = <<>> THEN <<>>
    ELSE O2C_text_item(Head(content)) \o O2C_text_items(Tail(content))

RECURSIVE O2C_user_items(_)
O2C_user_items(content) ==
    IF content = <<>> THEN <<>>
    ELSE O2C_user_item(Head(content)) \o O2C_user_items(Tail(content))

\* lines 957-996: the blocks of an assistant message
O2C_thinking(reasoning_content, sig) ==
    IF is_valid_value(reasoning_content)
    THEN <<MkBlock("thinking", reasoning_content, IF sig = None THEN <<>> ELSE sig[1])>>
    ELSE <<>>

O2C_assistant_text(content) ==
    IF IsNoneContent(content) THEN <<>>
    ELSE IF IsStrContent(content)
    THEN IF is_valid_value(content[1].text) /\ ~Blank(content[1].text)
         THEN <<MkBlock("text", content[1].text, <<>>)>>
         ELSE <<>>
    ELSE O2C_text_items(content)

O2C_tool_uses(tool_calls) == [i \in 1..tool_calls |-> MkBlock("tool_use", <<>>, <<>>)]

O2C_assistant_content(msg, sig) ==
    O2C_thinking(msg.reasoning_content, sig)
    \o O2C_assistant_text(msg.content)
    \o O2C_tool_uses(msg.tool_calls)

\* lines 1003-1005
O2C_role(role) == IF role \in {"user", "human"} THEN "user" ELSE role

\* lines 1007-1035: a message of any other role
O2C_other(messages, role, content) ==
    IF IsNoneContent(content) THEN messages
    ELSE IF IsStrContent(content)
    THEN IF ~Blank(content[1].text)
         THEN Append(messages, [role |-> role, content |-> content])
         ELSE messages
    ELSE IF O2C_user_items(content) # <<>>
    THEN Append(messages, [role |-> role, content |-> O2C_user_items(content)])
    ELSE messages

O2C_append(messages, role, claude_content) ==
    IF claude_content # <<>>
    THEN Append(messages, [role |-> role, content |-> claude_content])
    ELSE messages

O2C_add(messages, msg, sig) ==
    IF msg.role = "assistant"
    THEN O2C_append(messages, "assistant", O2C_assistant_content(msg, sig))
    ELSE O2C_other(messages, O2C_role(msg.role), msg.content)

\* lines 947-954 and 1037-1042
O2C_flush(messages, pending_tool_results) ==
    O2C_append(messages, "user", pending_tool_results)

\* lines 934-945
O2C_tool_result(msg) ==
    MkBlock("tool_result",
            IF IsStrContent(msg.content) /\ is_valid_value(msg.content[1].text)
            THEN msg.content[1].text ELSE <<>>,
            <<>>)

O2C_pending(pending_tool_results, msg) ==
    IF msg.tool_call_id # <<>>
    THEN Append(pending_tool_results, O2C_tool_result(msg))
    ELSE pending_tool_results

\* lines 921-1042: the loop over the request's messages and the last flush
RECURSIVE O2C_scan(_, _, _, _)
O2C_scan(msgs, messages, pending_tool_results, sig) ==
    IF msgs = <<>> THEN O2C_flush(messages, pending_tool_results)
    ELSE IF Head(msgs).role = "system"
    THEN O2C_scan(Tail(msgs), messages, pending_tool_results, sig)
    ELSE IF Head(msgs).role = "tool"
    THEN O2C_scan(Tail(msgs), messages, O2C_pending(pending_tool_results, Head(msgs)), sig)
    ELSE O2C_scan(Tail(msgs),
                  O2C_add(O2C_flush(messages, pending_tool_results), Head(msgs), sig),
                  <<>>, sig)

\* lines 1053-1056
O2C_as_list(content) ==
    IF IsStrContent(content) THEN <<MkBlock("text", content[1].text, <<>>)>> ELSE content

O2C_merge_into(merged_messages, msg) ==
    [merged_messages EXCEPT
        ![Len(merged_messages)].content = O2C_as_list(@) \o O2C_as_list(msg.content)]

\* lines 1044-1063
RECURSIVE O2C_merge(_, _)
O2C_merge(messages, merged_messages) ==
    IF messages = <<>> THEN merged_messages
    ELSE IF /\ merged_messages # <<>>
            /\ merged_messages[Len(merged_messages)].role = Head(messages).role
    THEN O2C_merge(Tail(messages), O2C_merge_into(merged_messages, Head(messages)))
    ELSE O2C_merge(Tail(messages), Append(merged_messages, Head(messages)))

openai_to_claude_messages(msgs, sig) ==
    O2C_merge(O2C_scan(msgs, <<>>, <<>>, sig), <<>>)

\* lines 2093-2126: one element of a message item's content
R2C_block(c) ==
    IF c.type \in {"input_text", "output_text"}
    THEN IF c.text # <<>> THEN <<MkBlock("text", c.text, <<>>)>> ELSE <<>>
    ELSE IF c.type = "input_image"
    THEN IF IsDataUrl(c.text) THEN <<MkBlock("image", <<>>, <<>>)>> ELSE <<>>
    ELSE IF c.type = "tool_result" THEN <<MkBlock("tool_result", <<>>, <<>>)>>
    ELSE <<>>

RECURSIVE R2C_blocks(_)
R2C_blocks(content) ==
    IF content = <<>> THEN <<>>
    ELSE R2C_block(Head(content)) \o R2C_blocks(Tail(content))

\* lines 2090-2126
R2C_content(content) ==
    IF IsNoneContent(content) THEN <<>>
    ELSE IF IsStrContent(content) THEN <<MkBlock("text", content[1].text, <<>>)>>
    ELSE R2C_blocks(content)

\* lines 2128-2133
R2C_message(role, claude_content) ==
    IF claude_content = <<>> THEN <<>>
    ELSE <<[role |-> IF role = "assistant" THEN "assistant" ELSE "user",
            content |-> claude_content]>>

\* lines 2072-2159: one item of the input list
R2C_item(item) ==
    IF item.type = "message"
    THEN IF item.role = "system" THEN <<>>
         ELSE R2C_message(item.role, R2C_content(item.content))
    ELSE IF item.type = "function_call"
    THEN <<[role |-> "assistant", content |-> <<MkBlock("tool_use", <<>>, <<>>)>>]>>
    ELSE IF item.type = "function_call_output"
    THEN <<[role |-> "user", content |-> <<MkBlock("tool_result", <<>>, <<>>)>>]>>
    ELSE <<>>

RECURSIVE R2C_items(_)
R2C_items(input_data) ==
    IF input_data = <<>> THEN <<>>
    ELSE R2C_item(Head(input_data)) \o R2C_items(Tail(input_data))

\* lines 2061-2159: input is a string or a list of items
responses_to_claude_messages(input) ==
    IF IsStr(input) THEN <<[role |-> "user", content |-> StrContent(input.str)]>>
    ELSE R2C_items(input.list)

\* ---- the requests of the adapter specification
MaxItems == 3

OAMsg(role, content, reasoning_content, tool_call_id, tool_calls) ==
    [role |-> role, content |-> content, reasoning_content |-> reasoning_content,
     tool_call_id |-> tool_call_id, tool_calls |-> tool_calls]

OpenAIMessages ==
    {OAMsg("system", StrContent(<<"s">>), <<>>, <<>>, 0),
     OAMsg("user", StrContent(<<"h", "i">>), <<>>, <<>>, 0),
     OAMsg("user", StrContent(<<" ">>), <<>>, <<>>, 0),
     OAMsg("human", <<MkBlock("text", <<"h", "i">>, <<>>),
                      MkBlock("image_url", <<"data:", "image/png;base64", ",", "AA">>, <<>>)>>,
           <<>>, <<>>, 0),
     OAMsg("developer", StrContent(<<"d">>), <<>>, <<>>, 0),
     OAMsg("assistant", StrContent(<<"o", "k">>), <<"k">>, <<>>, 0),
     OAMsg("assistant", NoneContent, <<>>, <<>>, 1),
     OAMsg("assistant", StrContent(<<"null">>), <<>>, <<>>, 0),
     OAMsg("tool", StrContent(<<"r">>), <<>>, <<"i">>, 0),
     OAMsg("tool", StrContent(<<"r">>), <<>>, <<>>, 0)}

RItem(type, role, content) == [type |-> type, role |-> role, content |-> content]

ResponsesItems ==
    {RItem("message", "system", StrContent(<<"s">>)),
     RItem("message", "user", StrContent(<<"h", "i">>)),
     RItem("message", "user", <<MkBlock("input_text", <<"h", "i">>, <<>>),
                                MkBlock("input_image", <<"http://x">>, <<>>)>>),
     RItem("message", "user", <<MkBlock("input_text", <<>>, <<>>)>>),
     RItem("message", "developer", <<MkBlock("input_text", <<"d">>, <<>>)>>),
     RItem("message", "assistant", <<MkBlock("output_text", <<"o", "k">>, <<>>)>>),
     RItem("function_call", "", <<>>),
     RItem("function_call_output", "", <<>>),
     RItem("reasoning", "", <<>>)}

GeminiContents ==
    {GeminiContent("user", <<TextPart(<<"h", "i">>)>>),
     GeminiContent("user", <<TextPart(<<" ">>)>>),
     GeminiContent("model", <<TextPart(<<"o", "k">>)>>),
     GeminiContent("model", <<ThoughtPart(<<"k">>, <<>>),
                              MkPart2("functionCall", <<>>, FALSE, <<>>)>>),
     GeminiContent("function", <<MkPart2("functionResponse", <<>>, FALSE, <<>>)>>),
     GeminiContent("model", <<MkPart2("functionResponse", <<>>, FALSE, <<>>)>>)}

AdapterRequests ==
    {[adapter |-> "openai", messages |-> msgs] : msgs \in SeqsUpTo(OpenAIMessages, MaxItems)}
    \cup {[adapter |-> "responses", input |-> [str |-> <<"h", "i">>]]}
    \cup {[adapter |-> "responses", input |-> [list |-> items]] :
             items \in SeqsUpTo(ResponsesItems, MaxItems)}
    \cup {[adapter |-> "gemini", contents |-> contents] :
             contents \in SeqsUpTo(GeminiContents, MaxItems)}

AdapterInit ==
    /\ ad_req \in AdapterRequests
    /\ global_thought_signature \in StoredSignatures
    /\ store_calls = global_thought_signature
    /\ ad_out = <<>>

AdapterIdle ==
    /\ ad_req = [adapter |-> "none"]
    /\ ad_out = <<>>

\* handle_openai_chat (line 3277)
OpenAIToClaude ==
    /\ ad_req.adapter = "openai"
    /\ ad_out = <<>>
    /\ ad_out' = <<openai_to_claude_messages(ad_req.messages, global_thought_signature)>>
    /\ UNCHANGED <<ad_req, storeVars, nonAdapterVars>>

\* handle_cursor2_responses (line 4224)
ResponsesToClaude ==
    /\ ad_req.adapter = "responses"
    /\ ad_out = <<>>
    /\ ad_out' = <<responses_to_claude_messages(ad_req.input)>>
    /\ UNCHANGED <<ad_req, storeVars, nonAdapterVars>>

\* handle_gemini_generate and handle_gemini_stream_generate (lines 4479, 4560)
GeminiToClaude ==
    /\ ad_req.adapter = "gemini"
    /\ ad_out = <<>>
    /\ ad_out' = <<G2C_messages(ad_req.contents)>>
    /\ UNCHANGED <<ad_req, storeVars, nonAdapterVars>>

AdapterNext == OpenAIToClaude \/ ResponsesToClaude \/ GeminiToClaude

(***************************************************************************)
(* AntigravityProxy._check_auth (lines 3074-3098) and the handler around   *)
(* it (lines 3114-3153).  A header value is a sequence of pieces, <<>> when*)
(* the header is absent; "Bearer " is one piece and a key is one piece.    *)
(***************************************************************************)
BEARER == "Bearer "

\* auth.startswith("Bearer ") and auth[7:]
BearerKey(auth) == IF auth # <<>> /\ auth[1] = BEARER THEN Some(Tail(auth)) ELSE None

\* lines 3082-3091: the key that is compared with the configured one
PresentedKey(api_key, goog_api_key) ==
    IF api_key = <<>> /\ goog_api_key # <<>> THEN goog_api_key ELSE api_key

ApiKeyOf(auth, x_api_key) ==
    IF BearerKey(auth) # None THEN BearerKey(auth)[1] ELSE x_api_key

AUTH_ERROR == [status |-> 401, type |-> "authentication_error"]

check_auth(headers, config_api_key) ==
    IF PresentedKey(ApiKeyOf(headers.Authorization, headers.x_api_key),
                    headers.x_goog_api_key) # config_api_key
    THEN Some(AUTH_ERROR)
    ELSE None

Keys == {<<"sk-antigravity">>, <<"k2">>}

AuthorizationValues ==
    {<<>>, <<BEARER>>, <<"bearer ", "sk-antigravity">>, <<"sk-antigravity">>}
    \cup {<<BEARER>> \o k : k \in Keys}

KeyValues == {<<>>} \cup Keys

AuthRequests ==
    [headers : [Authorization : AuthorizationValues, x_api_key : KeyValues,
                x_goog_api_key : KeyValues],
     api_key : Keys, json_ok : BOOLEAN]

AuReceived == [pc |-> "received", reply |-> None, ensure_project |-> 0, forward_request |-> 0]

AuthInit ==
    /\ au_req \in AuthRequests
    /\ au = AuReceived

AuthIdle ==
    /\ au_req = [headers |-> [Authorization |-> <<>>, x_api_key |-> <<>>,
                              x_goog_api_key |-> <<>>],
                 api_key |-> <<"sk-antigravity">>, json_ok |-> TRUE]
    /\ au = AuReceived

\* lines 3116-3118
HandlerCheckAuth ==
    /\ au.pc = "received"
    /\ \E auth_error \in {check_auth(au_req.headers, au_req.api_key)} :
           au' = IF auth_error # None
                 THEN [au EXCEPT !.pc = "replied", !.reply = auth_error]
                 ELSE [au EXCEPT !.pc = "authorized"]
    /\ UNCHANGED <<au_req, nonAuthVars>>

\* lines 3120-3123
HandlerReadBody ==
    /\ au.pc = "authorized"
    /\ au' = IF au_req.json_ok
             THEN [au EXCEPT !.pc = "parsed"]
             ELSE [au EXCEPT !.pc = "replied",
                             !.reply = Some([status |-> 400, type |-> "invalid_request"])]
    /\ UNCHANGED <<au_req, nonAuthVars>>

\* lines 3125-3127 and 3100-3110
HandlerEnsureProject(loaded) ==
    /\ au.pc = "parsed"
    /\ au' = IF loaded
             THEN [au EXCEPT !.pc = "ready", !.ensure_project = @ + 1]
             ELSE [au EXCEPT !.pc = "replied", !.ensure_project = @ + 1,
                             !.reply = Some([status |-> 500, type |-> "api_error"])]
    /\ UNCHANGED <<au_req, nonAuthVars>>

\* lines 3151-3153
HandlerForwardRequest ==
    /\ au.pc = "ready"
    /\ au' = [au EXCEPT !.pc = "forwarded", !.forward_request = @ + 1]
    /\ UNCHANGED <<au_req, nonAuthVars>>

AuthNext ==
    \/ HandlerCheckAuth
    \/ HandlerReadBody
    \/ \E loaded \in BOOLEAN : HandlerEnsureProject(loaded)
    \/ HandlerForwardRequest

(***************************************************************************)
(* clean_json_schema (lines 378-455).  A JSON value is a record of its     *)
(* kind and its value: a dict is a function from keys to JSON values, a    *)
(* list a sequence of JSON values, a string the sequence of its characters.*)
(***************************************************************************)
JStr(s) == [kind |-> "str", val |-> s]
JNum(n) == [kind |-> "num", val |-> n]
JBool(b) == [kind |-> "bool", val |-> b]
JList(l) == [kind |-> "list", val |-> l]
JDict(d) == [kind |-> "dict", val |-> d]
JNone == [kind |-> "none", val |-> 0]
EmptyDict == [k \in {} |-> JNone]

EXCLUDED_SCHEMA_KEYS ==
    {"$schema", "$id", "$ref", "minLength", "maxLength", "pattern",
     "minimum", "maximum", "exclusiveMinimum", "exclusiveMaximum", "multipleOf",
     "uniqueItems", "minItems", "maxItems", "oneOf", "anyOf", "allOf", "not",
     "if", "then", "else", "$defs", "definitions", "minProperties", "maxProperties",
     "patternProperties", "propertyNames", "dependencies", "dependentSchemas",
     "dependentRequired", "default", "const", "examples", "deprecated",
     "readOnly", "writeOnly", "contentMediaType", "contentEncoding", "strict"}

\* str.upper() and str.lower(), character by character
LowerLetters ==
    <<"a", "b", "c", "d", "e", "f", "g", "h", "i", "j", "k", "l", "m",
      "n", "o", "p", "q", "r", "s", "t", "u", "v", "w", "x", "y", "z">>
UpperLetters ==
    <<"A", "B", "C", "D", "E", "F", "G", "H", "I", "J", "K", "L", "M",
      "N", "O", "P", "Q", "R", "S", "T", "U", "V", "W", "X", "Y", "Z">>

LetterIndex(letters, c) ==
    IF \E i \in DOMAIN letters : letters[i] = c
    THEN CHOOSE i \in DOMAIN letters : letters[i] = c
    ELSE 0

UpperChar(c) ==
    IF LetterIndex(LowerLetters, c) # 0 THEN UpperLetters[LetterIndex(LowerLetters, c)] ELSE c
LowerChar(c) ==
    IF LetterIndex(UpperLetters, c) # 0 THEN LowerLetters[LetterIndex(UpperLetters, c)] ELSE c

Upper(s) == [i \in DOMAIN s |-> UpperChar(s[i])]
Lower(s) == [i \in DOMAIN s |-> LowerChar(s[i])]

T_STRING == <<"S", "T", "R", "I", "N", "G">>
T_NUMBER == <<"N", "U", "M", "B", "E", "R">>
T_INTEGER == <<"I", "N", "T", "E", "G", "E", "R">>
T_BOOLEAN == <<"B", "O", "O", "L", "E", "A", "N">>
T_ARRAY == <<"A", "R", "R", "A", "Y">>
T_OBJECT == <<"O", "B", "J", "E", "C", "T">>
GEMINI_TYPES == {T_STRING, T_NUMBER, T_INTEGER, T_BOOLEAN, T_ARRAY, T_OBJECT}
KEPT_FORMATS ==
    {<<"d", "a", "t", "e", "-", "t", "i", "m", "e">>, <<"d", "a", "t", "e">>,
     <<"t", "i", "m", "e">>}

\* lines 400-409
CleanTypeName(v_upper) == IF v_upper \in GEMINI_TYPES THEN JStr(v_upper) ELSE JStr(T_STRING)

IsNonNullName(t) == t.kind = "str" /\ Lower(t.val) # <<"n", "u", "l", "l">>

\* lines 410-417: the first member that is a string other than null
RECURSIVE FirstNonNull(_)
FirstNonNull(v) ==
    IF v = <<>> THEN JStr(T_STRING)
    ELSE IF IsNonNullName(Head(v)) THEN JStr(Upper(Head(v).val))
    ELSE FirstNonNull(Tail(v))

\* lines 398-419
CleanType(v) ==
    IF v.kind = "str" THEN CleanTypeName(Upper(v.val))
    ELSE IF v.kind = "list" THEN FirstNonNull(v.val)
    ELSE JStr(T_STRING)

MAX_SCHEMA_DEPTH == 10

RECURSIVE clean_value(_, _)
RECURSIVE CleanEntry(_, _, _)
RECURSIVE CleanProperty(_, _)

\* lines 428-435
CleanProperty(prop_schema, depth) ==
    IF prop_schema.kind = "dict" THEN clean_value(prop_schema, depth + 1)
    ELSE IF prop_schema.kind = "str"
    THEN JDict([k \in {"type"} |-> JStr(Upper(prop_schema.val))])
    ELSE JDict([k \in {"type"} |-> JStr(T_STRING)])

\* lines 396-444: what the key k of a dict is given in the result
CleanEntry(k, v, depth) ==
    IF k = "type" THEN CleanType(v)
    ELSE IF k = "format" /\ v.kind = "str" /\ v.val \in KEPT_FORMATS THEN v
    ELSE IF k = "additionalProperties"
    THEN IF v.kind = "bool" THEN v ELSE JBool(FALSE)
    ELSE IF k = "properties" /\ v.kind = "dict"
    THEN JDict([p \in DOMAIN v.val |-> CleanProperty(v.val[p], depth)])
    ELSE IF k = "items" /\ v.kind = "dict" THEN clean_value(v, depth + 1)
    ELSE IF k \in {"description", "enum", "required"} THEN v
    ELSE clean_value(v, depth + 1)

\* lines 389-449
clean_value(value, depth) ==
    IF depth > MAX_SCHEMA_DEPTH THEN value
    ELSE IF value.kind = "dict"
    THEN JDict([k \in (DOMAIN value.val) \ EXCLUDED_SCHEMA_KEYS |->
                   CleanEntry(k, value.val[k], depth)])
    ELSE IF value.kind = "list"
    THEN JList([i \in DOMAIN value.val |-> clean_value(value.val[i], depth + 1)])
    ELSE value

WithKey(d, k, v) == [x \in (DOMAIN d) \cup {k} |-> IF x = k THEN v ELSE d[x]]

\* lines 452-455
WithDefaultType(cleaned) ==
    IF "type" \notin DOMAIN cleaned THEN WithKey(cleaned, "type", JStr(T_OBJECT)) ELSE cleaned

WithDefaultProperties(cleaned) ==
    IF cleaned["type"] = JStr(T_OBJECT) /\ "properties" \notin DOMAIN cleaned
    THEN WithKey(cleaned, "properties", JDict(EmptyDict))
    ELSE cleaned

\* lines 378-455; `not schema` holds for None and for the empty dict
clean_json_schema(schema) ==
    IF schema.kind = "none" \/ (schema.kind = "dict" /\ DOMAIN schema.val = {})
    THEN JDict([k \in {"type", "properties"} |->
                   IF k = "type" THEN JStr(T_OBJECT) ELSE JDict(EmptyDict)])
    ELSE JDict(WithDefaultProperties(WithDefaultType(clean_value(schema, 0).val)))

\* ---- the schemas of the sanitizer specification
MaxCleans == 2

N_string == <<"s", "t", "r", "i", "n", "g">>
N_null == <<"n", "u", "l", "l">>
N_any == <<"a", "n", "y">>
N_Object == <<"O", "b", "j", "e", "c", "t">>
N_array == <<"a", "r", "r", "a", "y">>
N_date == <<"d", "a", "t", "e">>

TypeValues ==
    {JStr(N_string), JStr(N_null), JStr(N_any), JStr(N_Object), JNum(1),
     JList(<<JStr(N_string), JStr(N_null)>>), JList(<<JStr(N_null), JStr(N_any)>>),
     JList(<<JStr(N_null)>>), JList(<<JNum(1), JStr(N_array)>>)}

LeafSchemas ==
    {JDict(EmptyDict), JDict([k \in {"description"} |-> JStr(N_any)])}
    \cup {JDict([k \in {"type"} |-> t]) : t \in TypeValues}
    \cup {JDict([k \in {"type", "format", "minLength"} |->
                    IF k = "type" THEN JStr(N_string)
                    ELSE IF k = "format" THEN f ELSE JNum(1)]) : f \in {JStr(N_date), JStr(N_any)}}
    \cup {JDict([k \in {"type", "items"} |->
                    IF k = "type" THEN JStr(N_array) ELSE JDict([j \in {"type"} |-> t])]) :
             t \in {JStr(N_string), JList(<<JStr(N_null), JStr(N_any)>>)}}

PropertySchemas == LeafSchemas \cup {JStr(N_string), JStr(N_null), JStr(N_any), JNum(1)}

AdditionalValues == {JBool(TRUE), JDict([k \in {"type"} |-> JStr(N_string)])}

ObjectSchemas ==
    {JDict([k \in {"type", "properties"} |->
               IF k = "type" THEN JStr(N_Object)
               ELSE JDict([p \in {"a", "b"} |-> IF p = "a" THEN a ELSE b])]) :
        a \in PropertySchemas, b \in {JStr(N_string), JDict([j \in {"type"} |-> JStr(N_any)])}}
    \cup {JDict([k \in {"properties", "additionalProperties", "required"} |->
                    IF k = "properties" THEN JDict([p \in {"a"} |-> a])
                    ELSE IF k = "required" THEN JList(<<JStr(<<"a">>)>>) ELSE ap]) :
             a \in PropertySchemas, ap \in AdditionalValues}

Schemas == {JNone} \cup LeafSchemas \cup ObjectSchemas

SchemaInit ==
    /\ cs_schema \in Schemas
    /\ cs_out = <<>>

SchemaIdle ==
    /\ cs_schema = JNone
    /\ cs_out = <<>>

\* the sanitizer applied to the schema, then to what it returned
CleanSchema ==
    /\ Len(cs_out) < MaxCleans
    /\ cs_out' = Append(cs_out, clean_json_schema(IF cs_out = <<>> THEN cs_schema
                                                  ELSE cs_out[Len(cs_out)]))
    /\ UNCHANGED <<cs_schema, nonSchemaVars>>

SchemaNext == CleanSchema

(***************************************************************************)
(* A canonical message list taken to upstream contents by                  *)
(* RequestTransformer._build_contents (lines 1346-1367) and back by        *)
(* GeminiConverter.gemini_to_claude (lines 682-762)                        *)
(***************************************************************************)
ValidSignature == Rep("y", MIN_SIGNATURE_LENGTH)

\* messages every block of which is one the upstream accepts as it is: no
\* blank text, a thinking block only in front, with a text and a signature
\* of the required length
WellFormedTails == SeqsUpTo({MkBlock("text", <<"t">>, <<>>), MkBlock("tool_use", <<>>, <<>>)},
                            MaxBlocks)

WellFormedAssistant ==
    (WellFormedTails \ {<<>>})
    \cup {<<MkBlock("thinking", <<"k">>, ValidSignature)>> \o tail : tail \in WellFormedTails}

WellFormedUser ==
    {<<MkBlock("text", <<"t">>, <<>>)>>, <<MkBlock("tool_result", <<>>, <<>>)>>,
     <<MkBlock("str", <<"h", "i">>, <<>>)>>, <<MkBlock("str", <<" ", "h", "i">>, <<>>)>>}

WellFormedMessages ==
    {[role |-> "user", content |-> c] : c \in WellFormedUser}
    \cup {[role |-> "assistant", content |-> c] : c \in WellFormedAssistant}

RoundInit ==
    /\ rt_req \in [messages : SeqsUpTo(WellFormedMessages, MaxMsgs),
                    is_thinking : BOOLEAN, allow_dummy : BOOLEAN]
    /\ global_thought_signature \in StoredSignatures
    /\ store_calls = global_thought_signature
    /\ rt_contents = <<>>
    /\ rt_back = <<>>

RoundIdle ==
    /\ rt_req = [messages |-> <<>>, is_thinking |-> FALSE, allow_dummy |-> FALSE]
    /\ rt_contents = <<>>
    /\ rt_back = <<>>

\* transform(), line 1271
ToGemini ==
    /\ rt_contents = <<>>
    /\ rt_contents' = <<build_contents(rt_req.messages, rt_req.is_thinking,
                                       rt_req.allow_dummy, global_thought_signature)>>
    /\ UNCHANGED <<rt_req, rt_back, storeVars, nonRoundVars>>

\* handle_gemini_stream_generate, line 4560
FromGemini ==
    /\ rt_contents # <<>>
    /\ rt_back = <<>>
    /\ rt_back' = <<G2C_messages(rt_contents[1])>>
    /\ UNCHANGED <<rt_req, rt_contents, storeVars, nonRoundVars>>

RoundNext == ToGemini \/ FromGemini

(***************************************************************************)
(* CursorStreamingProcessor (lines 2687-2855).  The processor is a record; *)
(* out holds the frames it has returned, in order: a chunk with the kind   *)
(* of its delta and its finish_reason ("" for null), or the [DONE] frame.  *)
(***************************************************************************)
CuChunk(kind, payload, finish_reason) ==
    [type |-> "chunk", kind |-> kind, payload |-> payload, finish_reason |-> finish_reason]
CuDone == [type |-> "done", kind |-> "", payload |-> <<>>, finish_reason |-> ""]

CSP_new ==
    [started |-> FALSE, tool_calls |-> 0, current_tool_index |-> -1, finished |-> FALSE,
     out |-> <<>>, stores |-> <<>>]

CSP_format_chunk(s, kind, payload, finish_reason) ==
    [s EXCEPT !.out = Append(@, CuChunk(kind, payload, finish_reason))]

CSP_store(s, signature) ==
    IF signature # <<>> THEN [s EXCEPT !.stores = Append(@, signature)] ELSE s

\* lines 2775-2791
CSP_thought(s, text, signature) ==
    CSP_store(IF text # <<>> THEN CSP_format_chunk(s, "reasoning", text, "") ELSE s,
              signature)

\* lines 2793-2831
CSP_function_call(s, signature) ==
    CSP_store(
        CSP_format_chunk([s EXCEPT !.current_tool_index = @ + 1, !.tool_calls = @ + 1],
                         "tool_call", <<>>, ""),
        signature)

\* lines 2766-2840
CSP_process_part(s, part) ==
    IF part.thought THEN CSP_thought(s, part.text, part.thoughtSignature)
    ELSE IF part.functionCall # <<>> THEN CSP_function_call(s, part.thoughtSignature)
    ELSE IF part.text # <<>> THEN CSP_format_chunk(s, "content", part.text, "")
    ELSE s

RECURSIVE CSP_process_parts(_, _)
CSP_process_parts(s, parts) ==
    IF parts = <<>> THEN s
    ELSE CSP_process_parts(CSP_process_part(s, Head(parts)), Tail(parts))

\* lines 2740-2743
CSP_start(s) ==
    IF ~s.started THEN CSP_format_chunk([s EXCEPT !.started = TRUE], "role", <<>>, "") ELSE s

\* lines 2755-2760
CSP_openai_finish(s, finish_reason) ==
    IF s.tool_calls > 0 THEN "tool_calls"
    ELSE IF finish_reason = "MAX_TOKENS" THEN "length"
    ELSE "stop"

CSP_line_parts(s, line) ==
    IF line.candidates # <<>> THEN CSP_process_parts(s, line.candidates[1].parts) ELSE s

\* lines 2751-2763
CSP_line_finish(s, line) ==
    IF line.candidates # <<>> /\ line.candidates[1].finishReason # "" /\ ~s.finished
    THEN [CSP_format_chunk(s, "finish", <<>>,
                           CSP_openai_finish(s, line.candidates[1].finishReason))
             EXCEPT !.finished = TRUE]
    ELSE s

\* lines 2718-2765
CSP_process_line(s, line) ==
    IF ~line.json THEN s
    ELSE CSP_line_finish(CSP_line_parts(CSP_start(s), line), line)

CSP_final_chunk(s) ==
    IF ~s.finished
    THEN [CSP_format_chunk(s, "finish", <<>>, IF s.tool_calls > 0 THEN "tool_calls" ELSE "stop")
             EXCEPT !.finished = TRUE]
    ELSE s

\* lines 2842-2855
CSP_finish(s) == [CSP_final_chunk(s) EXCEPT !.out = Append(@, CuDone)]

CSP_new_stores(before, after) ==
    SubSeq(after.stores, Len(before.stores) + 1, Len(after.stores))

CursorInit ==
    /\ cu = CSP_new
    /\ cu_lines = <<>>
    /\ cu_finished = FALSE

CursorIdle == CursorInit

\* _handle_cursor_streaming passes one upstream line to process_line
CursorProcessLine(line) ==
    /\ ~cu_finished
    /\ Len(cu_lines) < MaxLines
    /\ \E st \in {CSP_process_line(cu, line)} :
           /\ cu' = st
           /\ global_thought_signature' =
                  StoreAll(global_thought_signature, CSP_new_stores(cu, st))
           /\ store_calls' = store_calls \o CSP_new_stores(cu, st)
    /\ cu_lines' = Append(cu_lines, line)
    /\ UNCHANGED <<cu_finished, nonCursorVars>>

\* the body has ended: the handler calls finish()
CursorFinish ==
    /\ ~cu_finished
    /\ cu' = CSP_finish(cu)
    /\ cu_finished' = TRUE
    /\ UNCHANGED <<cu_lines, storeVars, nonCursorVars>>

CursorNext ==
    \/ \E line \in Lines : CursorProcessLine(line)
    \/ CursorFinish

(***************************************************************************)
(* AntigravityClient.get_access_token and refresh_access_token (lines      *)
(* 2880-2900), called by concurrent requests.  A token is the number of    *)
(* the exchange that minted it; the access token is <<>> for "".           *)
(***************************************************************************)
EXPIRY_MARGIN == 60
DEFAULT_EXPIRES_IN == 3600
MaxRefreshes == 3

\* what the token endpoint may answer: a status and, under 200, expires_in
ExpiresIn == {None, Some(EXPIRY_MARGIN + 2)}

TokenInit ==
    /\ tk = [access_token |-> <<>>, expires_at |-> 0, minted |-> 0]
    /\ tk_pc = [c \in Callers |-> "idle"]
    /\ tk_ret = [c \in Callers |-> <<>>]

TokenIdle == TokenInit

\* line 2898
NeedsRefresh(cache, now) == cache.access_token = <<>> \/ now >= cache.expires_at

\* lines 2897-2900 up to the await of the exchange, or to the return
GetAccessToken(c) ==
    /\ tk_pc[c] = "idle"
    /\ IF NeedsRefresh(tk, clock)
       THEN /\ tk.minted < MaxRefreshes
            /\ tk' = [tk EXCEPT !.minted = @ + 1]
            /\ tk_pc' = [tk_pc EXCEPT ![c] = "refreshing"]
            /\ UNCHANGED tk_ret
       ELSE /\ tk_ret' = [tk_ret EXCEPT ![c] = tk.access_token]
            /\ UNCHANGED <<tk, tk_pc>>
    /\ UNCHANGED <<clock, nonTokenVars>>

\* lines 2888-2895: the exchange answers; under 200 the cache is written
RefreshAnswered(c, ok, expires_in) ==
    /\ tk_pc[c] = "refreshing"
    /\ tk_pc' = [tk_pc EXCEPT ![c] = "idle"]
    /\ IF ok
       THEN /\ tk' = [tk EXCEPT
                         !.access_token = <<tk.minted>>,
                         !.expires_at = clock - EXPIRY_MARGIN
                             + (IF expires_in = None THEN DEFAULT_EXPIRES_IN
                                ELSE expires_in[1])]
            /\ tk_ret' = [tk_ret EXCEPT ![c] = <<tk.minted>>]
       ELSE UNCHANGED <<tk, tk_ret>>
    /\ UNCHANGED <<clock, nonTokenVars>>

TokenNext ==
    \/ Tick
    \/ \E c \in Callers : GetAccessToken(c)
    \/ \E c \in Callers, ok \in BOOLEAN, expires_in \in ExpiresIn :
           RefreshAnswered(c, ok, expires_in)

(***************************************************************************)
(* The upstream response of one request (lines 2909-2957 and 3153-3250):   *)
(* forward_request tries the available URLs in turn and hands the response *)
(* to handle_claude_messages, which reads an error body itself or passes   *)
(* the response to _handle_claude_streaming_real or                        *)
(* _handle_claude_non_streaming_real.  ur.resps holds one record per       *)
(* response session.post returned, with the number of release() calls made *)
(* on it; ur.trace is the order of the posts and the releases.             *)
(***************************************************************************)
MaxChunks == 2
UpstreamStatuses == {200, 429, 500}

UR_new(stream, n_urls, chunks) ==
    [pc |-> "post", stream |-> stream, n_urls |-> n_urls, url_idx |-> 1,
     chunks |-> chunks, read |-> 0, resps |-> <<>>, marked |-> {}, trace |-> <<>>,
     client_disconnected |-> FALSE, reply |-> 0, exit |-> ""]

ReleaseInit ==
    \E stream \in BOOLEAN, n_urls \in 1..Len(BASE_URLS), chunks \in 0..MaxChunks :
        ur = UR_new(stream, n_urls, chunks)

ReleaseIdle == ur = UR_new(FALSE, 1, 0)

\* await resp.release() on the response in hand
UR_release(st) ==
    [st EXCEPT !.resps[Len(st.resps)].releases = @ + 1,
               !.trace = Append(@, [ev |-> "release", resp |-> Len(st.resps)])]

\* the handler returns a reply to the client
UR_exit(st, how, status) == [st EXCEPT !.pc = "done", !.exit = how, !.reply = status]

\* lines 3154-3167: forward_request has returned the response in hand
UR_dispatch(st) ==
    IF st.resps[Len(st.resps)].status >= 400 THEN [st EXCEPT !.pc = "text"]
    ELSE IF st.stream THEN [st EXCEPT !.pc = "prepare"]
    ELSE [st EXCEPT !.pc = "collecting"]

\* line 2938: session.post answers with a response
PostAnswered(status) ==
    /\ ur.pc = "post"
    /\ \E st \in {[ur EXCEPT !.resps = Append(@, [status |-> status, releases |-> 0,
                                                   url |-> ur.url_idx]),
                              !.trace = Append(@, [ev |-> "post", resp |-> ur.url_idx])]} :
           ur' = IF status = 429 THEN [st EXCEPT !.pc = "sleep"] ELSE UR_dispatch(st)
    /\ UNCHANGED nonReleaseVars

\* lines 2951-2957: session.post raises; the next URL is tried, or the exception
\* reaches the handler (lines 3169-3172)
PostRaises ==
    /\ ur.pc = "post"
    /\ ur' = IF ur.url_idx < ur.n_urls
             THEN [ur EXCEPT !.marked = @ \cup {ur.url_idx}, !.url_idx = @ + 1,
                             !.trace = Append(@, [ev |-> "post", resp |-> ur.url_idx])]
             ELSE UR_exit([ur EXCEPT !.trace = Append(@, [ev |-> "post",
                                                          resp |-> ur.url_idx])],
                          "post_exception", 500)
    /\ UNCHANGED nonReleaseVars

\* lines 2943-2949: the sleep after a 429 is over
SleepOver ==
    /\ ur.pc = "sleep"
    /\ ur' = IF ur.url_idx < ur.n_urls
             THEN [UR_release(ur) EXCEPT !.marked = @ \cup {ur.url_idx},
                                         !.url_idx = @ + 1, !.pc = "post"]
             ELSE UR_dispatch(ur)
    /\ UNCHANGED nonReleaseVars

\* lines 3156-3162 and 3169-3172: the error body is read, or reading it raises
ErrorText(ok) ==
    /\ ur.pc = "text"
    /\ ur' = IF ok
             THEN UR_exit(UR_release(ur), "upstream_error", ur.resps[Len(ur.resps)].status)
             ELSE UR_exit(ur, "text_exception", 500)
    /\ UNCHANGED nonReleaseVars

\* line 3182: response.prepare(request) sends the headers, or raises because
\* the client has gone
Prepare(ok) ==
    /\ ur.pc = "prepare"
    /\ ur' = IF ok THEN [ur EXCEPT !.pc = "streaming"]
             ELSE UR_exit(ur, "prepare_exception", 500)
    /\ UNCHANGED nonReleaseVars

\* lines 3187-3197 and 3204-3205: a chunk is processed and written; a failed
\* write leaves the loop
StreamChunk(write_ok) ==
    /\ ur.pc = "streaming"
    /\ ur.chunks > 0
    /\ ur' = IF write_ok THEN [ur EXCEPT !.chunks = @ - 1, !.read = @ + 1]
             ELSE UR_exit([UR_release(ur) EXCEPT !.client_disconnected = TRUE],
                          "client_disconnect", 200)
    /\ UNCHANGED nonReleaseVars

\* lines 3199-3211: the body is over
StreamEnd ==
    /\ ur.pc = "streaming"
    /\ ur.chunks = 0
    /\ ur' = UR_exit(UR_release(ur), "completed", 200)
    /\ UNCHANGED nonReleaseVars

\* lines 3220-3222: a chunk of the body is collected
CollectChunk ==
    /\ ur.pc = "collecting"
    /\ ur.chunks > 0
    /\ ur' = [ur EXCEPT !.chunks = @ - 1, !.read = @ + 1]
    /\ UNCHANGED nonReleaseVars

\* lines 3240-3250: the body is over
CollectEnd ==
    /\ ur.pc = "collecting"
    /\ ur.chunks = 0
    /\ ur' = UR_exit(UR_release(ur), "completed", 200)
    /\ UNCHANGED nonReleaseVars

\* lines 3204-3205, 3240-3241 and 3169-3172: reading the body raises
BodyRaises ==
    /\ ur.pc \in {"streaming", "collecting"}
    /\ ur' = UR_exit(UR_release(ur), "body_exception", 500)
    /\ UNCHANGED nonReleaseVars

ReleaseNext ==
    \/ \E status \in UpstreamStatuses : PostAnswered(status)
    \/ PostRaises
    \/ SleepOver
    \/ \E ok \in BOOLEAN : ErrorText(ok)
    \/ \E ok \in BOOLEAN : Prepare(ok)
    \/ \E write_ok \in BOOLEAN : StreamChunk(write_ok)
    \/ StreamEnd
    \/ CollectChunk
    \/ CollectEnd
    \/ BodyRaises

LateIdle == SchemaIdle /\ RoundIdle /\ CursorIdle /\ TokenIdle /\ ReleaseIdle
EdgeIdle == AdapterIdle /\ AuthIdle /\ LateIdle
FrontIdle == GeminiIdle /\ ResponsesIdle /\ SystemIdle /\ EdgeIdle

(***************************************************************************)
(* A streamed response followed by the transform of a later request: the   *)
(* handlers of lines 3174-3478 and then RequestTransformer.transform       *)
(***************************************************************************)
LongSignature == Rep("s", MIN_SIGNATURE_LENGTH)

CarryLines ==
    {DataLine(<<MkPart(<<>>, <<"a">>, TRUE, LongSignature, FALSE)>>, ""),
     DataLine(<<MkPart(<<>>, <<"a">>, FALSE, <<>>, FALSE)>>, ""),
     DataLine(<<>>, "STOP")}

CarryHistories ==
    {<<[role |-> "assistant", content |-> <<MkBlock("tool_use", <<>>, <<>>)>>]>>,
     <<[role |-> "assistant",
        content |-> <<MkBlock("thinking", <<"k">>, <<>>), MkBlock("tool_use", <<>>, <<>>)>>],
       [role |-> "user", content |-> <<MkBlock("tool_result", <<>>, <<>>)>>]>>}

CarryStores == {None, Some(Rep("g", MIN_SIGNATURE_LENGTH + 1))}

CarryInit ==
    /\ \E lines \in SeqsUpTo(CarryLines, MaxUpLines), final_newline \in BOOLEAN,
          kind \in Handlers :
           /\ lines = <<>> => final_newline
           /\ up_lines = lines
           /\ up_wire = Wire(lines, final_newline)
           /\ h = H_new(kind, <<>>)
    /\ tr_req \in [messages : CarryHistories, thinking : BOOLEAN, model : MappedModels]
    /\ tr_messages = tr_req.messages
    /\ tr_env = <<>>
    /\ global_thought_signature \in CarryStores
    /\ store_calls = global_thought_signature

\* the later request is transformed once the response has ended
TransformAfterResponse ==
    /\ h.pc = "closed"
    /\ Transform

CarryNext == HandlerNext \/ TransformAfterResponse

(***************************************************************************)
(* One upstream body on the /v1/messages stream and on the Responses       *)
(* stream: each line goes to StreamingProcessor.process_line (1678-1720)   *)
(* and to ResponsesStreamingProcessor.process_line (2405-2447), and at the *)
(* end of the body each handler calls finish().                            *)
(***************************************************************************)
BothInit == SPInit /\ ResponsesInit

BothProcessLine(line) ==
    /\ ~sp_finished
    /\ Len(sp_lines) < MaxLines
    /\ sp' = SP_process_line(sp, line)
    /\ sp_lines' = Append(sp_lines, line)
    /\ \E st \in {RSP_process_line(rs, line)} :
           /\ rs' = st
           /\ global_thought_signature' =
                  StoreAll(global_thought_signature, RSP_new_stores(rs, st))
           /\ store_calls' = store_calls \o RSP_new_stores(rs, st)
    /\ rs_lines' = Append(rs_lines, line)
    /\ UNCHANGED <<sp_finished, rs_finished, nonLineVars>>

BothFinish ==
    /\ ~sp_finished
    /\ sp' = SP_finish(sp)
    /\ rs' = RSP_finish(rs)
    /\ sp_finished' = TRUE
    /\ rs_finished' = TRUE
    /\ UNCHANGED <<sp_lines, rs_lines, storeVars, nonLineVars>>

BothNext ==
    \/ \E line \in Lines : BothProcessLine(line)
    \/ BothFinish

(***************************************************************************)
(* Specifications                                                          *)
(***************************************************************************)
ClockIdle == clock = 1
StoreIdle == StoreInit
RLIdle == RLInit
PoolIdle == BootInit
SPIdle == SPInit

InitStore == StoreInit /\ ClockIdle /\ RLIdle /\ PoolIdle /\ SPIdle /\ AggIdle /\ HandlerIdle /\ TransformIdle /\ FrontIdle
SpecStore == InitStore /\ [][StoreNext]_vars

InitRL == RLInit /\ ClockIdle /\ StoreIdle /\ PoolIdle /\ SPIdle /\ AggIdle /\ HandlerIdle /\ TransformIdle /\ FrontIdle
SpecRL == InitRL /\ [][RLNext]_vars

InitPool == PoolInit /\ ClockIdle /\ StoreIdle /\ RLIdle /\ SPIdle /\ AggIdle /\ HandlerIdle /\ TransformIdle /\ FrontIdle
SpecPool == InitPool /\ [][PoolNext]_vars

InitBoot == BootInit /\ ClockIdle /\ StoreIdle /\ RLIdle /\ SPIdle /\ AggIdle /\ HandlerIdle /\ TransformIdle /\ FrontIdle
SpecBoot == InitBoot /\ [][BootNext]_vars

InitStream == SPInit /\ ClockIdle /\ StoreIdle /\ RLIdle /\ PoolIdle /\ AggIdle /\ HandlerIdle /\ TransformIdle /\ FrontIdle
SpecStream == InitStream /\ [][StreamNext]_vars

InitAgg == AggInit /\ ClockIdle /\ StoreIdle /\ RLIdle /\ PoolIdle /\ SPIdle /\ HandlerIdle /\ TransformIdle /\ FrontIdle
SpecAgg == InitAgg /\ [][AggNext]_vars

InitHandler == HandlerInit /\ ClockIdle /\ StoreIdle /\ RLIdle /\ PoolIdle /\ SPIdle /\ AggIdle /\ TransformIdle /\ FrontIdle
SpecHandler == InitHandler /\ [][HandlerNext]_vars

InitTransform == TransformInit /\ ClockIdle /\ RLIdle /\ PoolIdle /\ SPIdle /\ AggIdle /\ HandlerIdle /\ FrontIdle
SpecTransform == InitTransform /\ [][TransformNext]_vars

BackIdle ==
    ClockIdle /\ RLIdle /\ PoolIdle /\ SPIdle /\ AggIdle /\ HandlerIdle /\ TransformIdle

InitGemini == GeminiInit /\ BackIdle /\ ResponsesIdle /\ SystemIdle /\ EdgeIdle

InitResponses == ResponsesInit /\ StoreIdle /\ BackIdle /\ GeminiIdle /\ SystemIdle /\ EdgeIdle

InitSystem == SystemInit /\ StoreIdle /\ BackIdle /\ GeminiIdle /\ ResponsesIdle /\ EdgeIdle
SpecSystem == InitSystem /\ [][SystemNext]_vars
SpecResponses == InitResponses /\ [][ResponsesNext]_vars

InitCarry == CarryInit /\ ClockIdle /\ RLIdle /\ PoolIdle /\ SPIdle /\ AggIdle /\ FrontIdle
SpecCarry == InitCarry /\ [][CarryNext]_vars
SpecGemini == InitGemini /\ [][GeminiNext]_vars

InitAdapters ==
    AdapterInit /\ BackIdle /\ GeminiIdle /\ ResponsesIdle /\ SystemIdle /\ AuthIdle
        /\ LateIdle
SpecAdapters == InitAdapters /\ [][AdapterNext]_vars

InitAuth ==
    AuthInit /\ StoreIdle /\ BackIdle /\ GeminiIdle /\ ResponsesIdle /\ SystemIdle
        /\ AdapterIdle /\ LateIdle
SpecAuth == InitAuth /\ [][AuthNext]_vars

OldIdle ==
    StoreIdle /\ BackIdle /\ GeminiIdle /\ ResponsesIdle /\ SystemIdle /\ AdapterIdle
        /\ AuthIdle

InitSchema == SchemaInit /\ OldIdle /\ RoundIdle /\ CursorIdle /\ TokenIdle /\ ReleaseIdle
SpecSchema == InitSchema /\ [][SchemaNext]_vars

FrontButStoreIdle ==
    BackIdle /\ GeminiIdle /\ ResponsesIdle /\ SystemIdle /\ AdapterIdle /\ AuthIdle

InitRound ==
    RoundInit /\ FrontButStoreIdle /\ SchemaIdle /\ CursorIdle /\ TokenIdle /\ ReleaseIdle
SpecRound == InitRound /\ [][RoundNext]_vars

InitCursor == CursorInit /\ OldIdle /\ SchemaIdle /\ RoundIdle /\ TokenIdle /\ ReleaseIdle
SpecCursor == InitCursor /\ [][CursorNext]_vars

InitBoth ==
    BothInit /\ StoreIdle /\ ClockIdle /\ RLIdle /\ PoolIdle /\ AggIdle /\ HandlerIdle
        /\ TransformIdle /\ GeminiIdle /\ SystemIdle /\ EdgeIdle
SpecBoth == InitBoth /\ [][BothNext]_vars

InitToken == TokenInit /\ OldIdle /\ SchemaIdle /\ RoundIdle /\ CursorIdle /\ ReleaseIdle
SpecToken == InitToken /\ [][TokenNext]_vars

InitRelease == ReleaseInit /\ OldIdle /\ SchemaIdle /\ RoundIdle /\ CursorIdle /\ TokenIdle
SpecRelease == InitRelease /\ [][ReleaseNext]_vars

(***************************************************************************)
(* C1: starting from an empty store, after any sequence of store calls     *)
(* get() returns a longest element of the sequence, and a stored value is  *)
(* replaced only by a strictly longer one: the store holds the first       *)
(* element of maximal length, and holds None only before the first call.   *)
(***************************************************************************)
IsLongest(i, calls) ==
    \A j \in DOMAIN calls : Len(calls[j]) <= Len(calls[i])

FirstLongest(calls) ==
    calls[CHOOSE i \in DOMAIN calls :
              /\ IsLongest(i, calls)
              /\ \A j \in 1..(i - 1) : Len(calls[j]) < Len(calls[i])]

StoreMonotone ==
    IF store_calls = <<>>
    THEN global_thought_signature_get(global_thought_signature) = None
    ELSE global_thought_signature_get(global_thought_signature)
             = Some(FirstLongest(store_calls))

\* a later call of equal length and different value was refused
StoreMonotoneWitness ==
    /\ Len(store_calls) >= 3
    /\ global_thought_signature = Some(store_calls[2])
    /\ Len(store_calls[1]) < Len(store_calls[2])
    /\ Len(store_calls[3]) = Len(store_calls[2])
    /\ store_calls[3] # store_calls[2]

(***************************************************************************)
(* C2: over any window of length window_seconds at most max_requests       *)
(* acquires return, and successive returns are at least min_interval       *)
(* apart.  Windows are half-open, (t - window_seconds, t], and it is       *)
(* enough to look at the windows that end at a return.                     *)
(***************************************************************************)
ReturnsInWindow(i) ==
    { j \in 1..i : acquire_returns[j] > acquire_returns[i] - window_seconds }

RateLimitRespected ==
    /\ \A i \in DOMAIN acquire_returns :
           Cardinality(ReturnsInWindow(i)) <= max_requests
    /\ \A i \in DOMAIN acquire_returns :
           i > 1 => acquire_returns[i] - acquire_returns[i - 1] >= min_interval

(***************************************************************************)
(* C3: in forward_request, when the first two base URLs both answered 429, *)
(* the third base URL has been attempted by the time the request returns   *)
(* or fails, whatever the cool-down map held.                              *)
(***************************************************************************)
InSeq(x, seq) == \E i \in DOMAIN seq : seq[i] = x

FailoverReachesThird ==
    \A r \in Requests :
        (/\ fr[r].pc = "done"
         /\ BASE_URLS[1] \in fr[r].got429
         /\ BASE_URLS[2] \in fr[r].got429)
            => InSeq(BASE_URLS[3], fr[r].attempted)

\* a request that started with the first URLs marked by an earlier request's
\* failure and out of cool-down again, saw both answer 429 and went on
FailoverReachesThirdWitness ==
    \E r \in Requests :
        /\ fr[r].pc = "done"
        /\ fr[r].got429 = {BASE_URLS[1], BASE_URLS[2]}
        /\ fr[r].attempted = BASE_URLS
        /\ url_availability[BASE_URLS[1]] > clock
        /\ fr[r].cooling = {}
        /\ pool_starts > 1

(***************************************************************************)
(* C4: for any sequence of upstream lines passed to process_line and       *)
(* followed by finish(), message_start is emitted exactly once and is the  *)
(* first event emitted.                                                    *)
(***************************************************************************)
CountType(out, type) == Cardinality({i \in 1..Len(out) : out[i].type = type})

StreamStartsOnce ==
    sp_finished =>
        /\ CountType(sp.out, "message_start") = 1
        /\ sp.out[1].type = "message_start"

(***************************************************************************)
(* C5: for any sequence of upstream lines followed by finish(), exactly    *)
(* one message_delta and exactly one message_stop are emitted, the         *)
(* message_delta directly before the message_stop, and message_stop is the *)
(* last event.                                                             *)
(***************************************************************************)
StreamEndsOnce ==
    sp_finished =>
        /\ CountType(sp.out, "message_delta") = 1
        /\ CountType(sp.out, "message_stop") = 1
        /\ Len(sp.out) >= 2
        /\ sp.out[Len(sp.out)].type = "message_stop"
        /\ sp.out[Len(sp.out) - 1].type = "message_delta"

(***************************************************************************)
(* C9: for any sequence of upstream parts, the content blocks built by     *)
(* NonStreamingProcessor (types, order, text and thinking payloads,        *)
(* signatures) equal the blocks obtained by draining StreamingProcessor    *)
(* over the same parts and concatenating the deltas of each block.         *)
(***************************************************************************)
AggregatorEqualsDrain ==
    agg_pc = {"aggregated", "drained"} => agg_blocks = DrainBlocks(agg_events, <<>>)

(***************************************************************************)
(* C6: on the OpenAI chat stream, for any upstream body, a client that     *)
(* stays to the end receives exactly one chunk with a non-null             *)
(* finish_reason, then exactly one "data: [DONE]" frame, and that frame is *)
(* the last frame written.                                                 *)
(***************************************************************************)
RECURSIVE FramesWritten(_)
FramesWritten(writes) ==
    IF writes = <<>> THEN <<>>
    ELSE Head(writes).data \o FramesWritten(Tail(writes))

AllWritesOk == \A i \in 1..Len(h.writes) : h.writes[i].ok

IsFinishChunk(f) == f.object = "chunk" /\ f.finish_reason # ""

Positions(frames, P(_)) == {i \in 1..Len(frames) : P(frames[i])}

OneFinishThenOneDone(frames) ==
    /\ Cardinality(Positions(frames, IsFinishChunk)) = 1
    /\ Cardinality(Positions(frames, LAMBDA f : f = DoneFrame)) = 1
    /\ frames[Len(frames)] = DoneFrame
    /\ IsFinishChunk(frames[Len(frames) - 1])

OpenAIStreamTerminates ==
    (h.kind = "openai_streaming" /\ h.pc = "closed" /\ AllWritesOk)
        => OneFinishThenOneDone(FramesWritten(h.writes))

(***************************************************************************)
(* C7: in every streaming handler, once a client write has failed no       *)
(* further client write is attempted for that response: a failed write is  *)
(* the last write.                                                         *)
(***************************************************************************)
NoWriteAfterFailedWrite ==
    \A i \in 1..Len(h.writes) : ~h.writes[i].ok => i = Len(h.writes)

(***************************************************************************)
(* C8: however the upstream body is split into chunks, the /v1/messages    *)
(* streaming handler and the non-streaming aggregator process every        *)
(* upstream data line exactly once and in order: the events written, and   *)
(* the content blocks of the aggregated reply, are those of the body's     *)
(* lines taken one by one.                                                 *)
(***************************************************************************)
RECURSIVE RunLines(_, _)
RunLines(s, lines) ==
    IF lines = <<>> THEN s
    ELSE RunLines(SP_process_line(s, Head(lines)), Tail(lines))

RECURSIVE PartsOf(_)
PartsOf(lines) ==
    IF lines = <<>> THEN <<>>
    ELSE (IF Head(lines).json /\ Head(lines).candidates # <<>>
          THEN Head(lines).candidates[1].parts ELSE <<>>)
         \o PartsOf(Tail(lines))

ChunkingIndependent ==
    h.pc = "closed" =>
        /\ (h.kind = "claude_streaming" /\ AllWritesOk) =>
               FramesWritten(h.writes) = SP_finish(RunLines(SP_new, up_lines)).out
        /\ h.kind = "claude_non_streaming" =>
               h.reply = NSP_process(PartsOf(up_lines))

(***************************************************************************)
(* C10: in every envelope produced by transform, a model message that has  *)
(* a part with thought = true has it at index 0 and has no other thought   *)
(* part.                                                                   *)
(***************************************************************************)
ThoughtOnlyFirst(parts) == \A i \in 1..Len(parts) : parts[i].thought => i = 1

ThinkingFirst ==
    tr_env # <<>> =>
        \A m \in 1..Len(tr_env[1].contents) :
            tr_env[1].contents[m].role = "model"
                => ThoughtOnlyFirst(tr_env[1].contents[m].parts)

\* an assistant message of two signed thinking blocks went out as a thought
\* part followed by the second block's text as a plain text part
ThinkingFirstWitness ==
    /\ tr_env # <<>>
    /\ tr_env[1].thinkingConfig
    /\ \E i \in 1..Len(tr_req.messages) :
           /\ tr_req.messages[i].role = "assistant"
           /\ Len(tr_req.messages[i].content) = 2
           /\ \A b \in 1..2 :
                  /\ tr_req.messages[i].content[b].type = "thinking"
                  /\ IsValidSignature(tr_req.messages[i].content[b].signature)
    /\ \E m \in 1..Len(tr_env[1].contents) :
           /\ tr_env[1].contents[m].role = "model"
           /\ Len(tr_env[1].contents[m].parts) = 2
           /\ tr_env[1].contents[m].parts[1].thought
           /\ ~tr_env[1].contents[m].parts[2].thought
           /\ tr_env[1].contents[m].parts[2].kind = "text"
(***************************************************************************)
(* C11: whatever the request and whatever the signature store holds, an    *)
(* envelope whose mapped model name begins with "claude-" has no part      *)
(* whose thoughtSignature is the dummy sentinel.                           *)
(***************************************************************************)
HasDummyPart(contents) ==
    \E m \in 1..Len(contents) : \E p \in 1..Len(contents[m].parts) :
        contents[m].parts[p].thoughtSignature = DUMMY_THOUGHT_SIGNATURE

NoDummyForClaude ==
    (tr_env # <<>> /\ StartsWith(tr_env[1].model, <<"claude-">>))
        => ~HasDummyPart(tr_env[1].contents)

\* a Claude request with thinking on whose history brings the sentinel in a
\* thinking block and in a tool_use block while the store holds it too: the
\* functionCall part went out without a signature
NoDummyForClaudeWitness ==
    /\ tr_env # <<>>
    /\ StartsWith(tr_env[1].model, <<"claude-">>)
    /\ tr_req.thinking
    /\ global_thought_signature = Some(DUMMY_THOUGHT_SIGNATURE)
    /\ \E i \in 1..Len(tr_req.messages) :
           /\ tr_req.messages[i].role = "assistant"
           /\ tr_req.messages[i].content
                  = <<MkBlock("thinking", <<"k">>, DUMMY_THOUGHT_SIGNATURE),
                      MkBlock("tool_use", <<>>, DUMMY_THOUGHT_SIGNATURE)>>
    /\ \E m \in 1..Len(tr_env[1].contents) :
           /\ Len(tr_env[1].contents[m].parts) = 2
           /\ tr_env[1].contents[m].parts[2].kind = "functionCall"
           /\ tr_env[1].contents[m].parts[2].thoughtSignature = <<>>
(***************************************************************************)
(* C12: the envelope carries thinkingConfig iff (a) the request has        *)
(* thinking.type = enabled, (b) the mapped model supports thinking, (c)    *)
(* the last assistant message is not tool_use-without-thinking, and (d) if *)
(* the history contains tool_use blocks, the signature store or some       *)
(* assistant thinking block holds a signature of length >= 50.             *)
(***************************************************************************)
SignatureAvailable(messages, global_sig) ==
    HasToolUse(messages) => has_valid_signature_for_function_calls(messages, global_sig)

IsLastAssistant(messages, i) ==
    /\ messages[i].role = "assistant"
    /\ \A j \in (i + 1)..Len(messages) : messages[j].role # "assistant"

LastAssistantToolUseOnly(messages) ==
    \E i \in 1..Len(messages) :
        /\ IsLastAssistant(messages, i)
        /\ \E b \in 1..Len(messages[i].content) : messages[i].content[b].type = "tool_use"
        /\ \A b \in 1..Len(messages[i].content) : messages[i].content[b].type # "thinking"

CompatibilityGating ==
    (tr_env # <<>> /\ LastAssistantToolUseOnly(tr_req.messages))
        => ~tr_env[1].thinkingConfig

\* thinking was requested for a model that supports it and the assistant
\* message is a bare tool_use followed by the user's tool_result: both
\* messages went out and the envelope has no thinkingConfig
CompatibilityGatingWitness ==
    /\ tr_env # <<>>
    /\ tr_req.thinking
    /\ model_supports_thinking(tr_req.model)
    /\ Len(tr_req.messages) = 2
    /\ tr_req.messages[1].role = "assistant"
    /\ tr_req.messages[1].content = <<MkBlock("tool_use", <<>>, <<>>)>>
    /\ tr_req.messages[2].role = "user"
    /\ tr_req.messages[2].content = <<MkBlock("tool_result", <<>>, <<>>)>>
    /\ ~tr_env[1].thinkingConfig
    /\ Len(tr_env[1].contents) = 2
(***************************************************************************)
(* C14: a Gemini streamGenerateContent request for gemini-2.5-flash with   *)
(* includeThoughts = true and thinkingBudget = 30000 produces an envelope  *)
(* whose generationConfig.thinkingConfig.thinkingBudget is 24576.          *)
(***************************************************************************)
BudgetClampScenario ==
    /\ gm_req.model = <<"gemini-", "2.5-flash">>
    /\ gm_req.thinkingConfig
           = Some([includeThoughts |-> TRUE, thinkingBudget |-> Some(30000)])

BudgetClamped ==
    (gm_env # <<>> /\ BudgetClampScenario) =>
        /\ gm_env[1].thinkingConfig # None
        /\ gm_env[1].thinkingConfig[1].thinkingBudget = Some(FLASH_MAX_BUDGET)
(***************************************************************************)
(* C15: after a streaming response, on any client dialect, has delivered   *)
(* an upstream thinking signature of length >= 50, a request transformed   *)
(* afterwards gets that signature or a longer one from get() for its       *)
(* functionCall parts that have no signature of their own.                 *)
(***************************************************************************)
DeliveredSignatures(lines) ==
    {sig \in {LongSignature} :
        \E i \in 1..Len(lines) : \E p \in 1..Len(lines[i].candidates[1].parts) :
            /\ lines[i].candidates[1].parts[p].thought
            /\ lines[i].candidates[1].parts[p].thoughtSignature = sig}

FunctionCallParts(parts) ==
    {parts[p] : p \in {q \in 1..Len(parts) : parts[q].kind = "functionCall"}}

FunctionCallSignatures(contents) ==
    UNION {{part.thoughtSignature : part \in FunctionCallParts(contents[m].parts)} :
               m \in 1..Len(contents)}

StreamedAndTransformed ==
    /\ h.kind \in {"claude_streaming", "openai_streaming"}
    /\ h.pc = "closed"
    /\ AllWritesOk
    /\ tr_env # <<>>

SignatureCarriedOver ==
    StreamedAndTransformed =>
        \A sig \in DeliveredSignatures(up_lines) :
            \A used \in FunctionCallSignatures(tr_env[1].contents) :
                /\ Some(used) = global_thought_signature_get(global_thought_signature)
                /\ Len(used) >= Len(sig)
(***************************************************************************)
(* C16: every message item the processor opens goes through                *)
(* output_item.added, content_part.added, at least one output_text.delta,  *)
(* output_text.done, content_part.done and output_item.done, in that       *)
(* order, before response.completed, whatever closes it (finish or an      *)
(* arriving function call); response.created precedes them all.            *)
(***************************************************************************)
MessageAdded(out, i) ==
    out[i].type = "response.output_item.added" /\ out[i].item = "message"

\* the events about the message item opened at position i
MessageEvents(out, i) ==
    {j \in i..Len(out) : out[j].item = "message"
                          /\ out[j].output_index = out[i].output_index}

IsType(out, j, type) == out[j].type = type

MessageLifecycle(out, i) ==
    \E a \in MessageEvents(out, i), d \in MessageEvents(out, i),
       t \in MessageEvents(out, i), c \in MessageEvents(out, i),
       o \in MessageEvents(out, i), e \in 1..Len(out), b \in 1..Len(out) :
        /\ b < i /\ i < a /\ a < d /\ d < t /\ t < c /\ c < o /\ o < e
        /\ IsType(out, b, "response.created")
        /\ IsType(out, a, "response.content_part.added")
        /\ IsType(out, d, "response.output_text.delta")
        /\ IsType(out, t, "response.output_text.done")
        /\ IsType(out, c, "response.content_part.done")
        /\ IsType(out, o, "response.output_item.done")
        /\ IsType(out, e, "response.completed")

ResponsesMessageLifecycle ==
    rs_finished =>
        \A i \in 1..Len(rs.out) : MessageAdded(rs.out, i) => MessageLifecycle(rs.out, i)
(***************************************************************************)
(* C17: over all the events one ResponsesStreamingProcessor emits, through *)
(* any process_line calls and finish, sequence_number is strictly          *)
(* increasing in emission order, so no number is used twice.               *)
(***************************************************************************)
SequenceNumbersIncrease ==
    \A i \in 1..Len(rs.out), j \in 1..Len(rs.out) :
        i < j => rs.out[i].sequence_number < rs.out[j].sequence_number

\* a message closed by an arriving function call, then finish(): ten events or more
SequenceNumbersIncreaseWitness ==
    /\ rs_finished
    /\ Len(rs.out) >= 10
    /\ \E i \in 1..Len(rs.out) : rs.out[i].type = "response.output_text.delta"
    /\ \E i \in 1..Len(rs.out) : rs.out[i].type = "response.function_call_arguments.done"
    /\ rs.out[Len(rs.out)].type = "response.completed"
    /\ rs.out[Len(rs.out)].sequence_number = Len(rs.out)
(***************************************************************************)
(* C18: for every request, with system absent, a string or a list of text  *)
(* blocks, the envelope has a systemInstruction whose parts contain the    *)
(* identity preamble; the preamble is the first part whenever the user's   *)
(* system text does not contain "You are Antigravity".                     *)
(***************************************************************************)
HasPreamble(parts) ==
    \E i \in 1..Len(parts) : Contains(parts[i].text, ANTIGRAVITY_IDENTITY)

IdentityPatchPresent ==
    si_out # <<>> =>
        /\ si_out[1] # None
        /\ HasPreamble(si_out[1][1].parts)
        /\ ~UserHasIdentity(UserParts(si_system))
               => si_out[1][1].parts[1].text = ANTIGRAVITY_IDENTITY

(***************************************************************************)
(* C19: the canonical request produced by every inbound adapter (OpenAI    *)
(* Chat, OpenAI Responses, Gemini) contains no two adjacent messages with  *)
(* the same role, for any input message sequence.                          *)
(***************************************************************************)
NoAdjacentSameRole(messages) ==
    \A i \in 1..(Len(messages) - 1) : messages[i].role # messages[i + 1].role

MergeAdjacency == ad_out # <<>> => NoAdjacentSameRole(ad_out[1])

(***************************************************************************)
(* C20: a request is accepted iff the configured key is presented in at    *)
(* least one of Authorization: Bearer <k>, x-api-key, x-goog-api-key,      *)
(* whatever the other two carry; otherwise the reply is 401 with           *)
(* error.type authentication_error, and neither the project bootstrap nor  *)
(* an upstream call is made.                                               *)
(***************************************************************************)
KeyPresented ==
    \/ au_req.headers.Authorization = <<BEARER>> \o au_req.api_key
    \/ au_req.headers.x_api_key = au_req.api_key
    \/ au_req.headers.x_goog_api_key = au_req.api_key

AuthAccepted == au.reply # Some(AUTH_ERROR)

AuthenticationAnyHeader ==
    au.pc # "received" =>
        /\ AuthAccepted <=> KeyPresented
        /\ ~KeyPresented =>
               /\ au.pc = "replied"
               /\ au.reply = Some(AUTH_ERROR)
               /\ au.ensure_project = 0
               /\ au.forward_request = 0

(***************************************************************************)
(* C21: schema sanitization is idempotent: for every schema s, also with   *)
(* union-typed type lists, string-shorthand properties and unknown type    *)
(* names, clean_json_schema(clean_json_schema(s)) = clean_json_schema(s).  *)
(***************************************************************************)
SanitizeIdempotent == Len(cs_out) = 2 => cs_out[2] = cs_out[1]

(***************************************************************************)
(* C22: every well-formed canonical message list, translated to upstream   *)
(* contents and back, yields the same sequence of text, tool_use,          *)
(* tool_result and thinking blocks with the same payloads, up to dummy     *)
(* signatures.                                                             *)
(***************************************************************************)
\* what is compared of one block: its type, its text, and the signature of
\* a thinking block unless it is the dummy one
ComparedSignature(block) ==
    IF block.type = "thinking" /\ block.signature # DUMMY_THOUGHT_SIGNATURE
    THEN block.signature ELSE <<>>

ComparedBlock(block) ==
    IF block.type \in {"text", "str"} THEN <<<<"text", block.text, <<>>>>>>
    ELSE IF block.type \in {"tool_use", "tool_result", "thinking"}
    THEN <<<<block.type, block.text, ComparedSignature(block)>>>>
    ELSE <<>>

RECURSIVE ComparedBlocks(_)
ComparedBlocks(content) ==
    IF content = <<>> THEN <<>>
    ELSE ComparedBlock(Head(content)) \o ComparedBlocks(Tail(content))

RECURSIVE ComparedMessages(_)
ComparedMessages(messages) ==
    IF messages = <<>> THEN <<>>
    ELSE ComparedBlocks(Head(messages).content) \o ComparedMessages(Tail(messages))

RoundTrip ==
    rt_back # <<>> => ComparedMessages(rt_back[1]) = ComparedMessages(rt_req.messages)

(***************************************************************************)
(* C23: the stop_reason of a message_delta is tool_use if a function call  *)
(* part has been processed in the stream, else max_tokens iff the upstream *)
(* finishReason was MAX_TOKENS, else end_turn, also when the stream ends   *)
(* without any finishReason.  The function calls are read from the lines   *)
(* the processor was given, the finish reason from the line that makes it  *)
(* finish, "" when finish() does.                                          *)
(***************************************************************************)
LineHasCall(line) ==
    /\ line.json
    /\ line.candidates # <<>>
    /\ \E p \in 1..Len(line.candidates[1].parts) :
           line.candidates[1].parts[p].functionCall # <<>>

CallProcessed(lines) == \E i \in 1..Len(lines) : LineHasCall(lines[i])

LineFinishReason(line) ==
    IF line.json /\ line.candidates # <<>> THEN line.candidates[1].finishReason ELSE ""

CanonicalStopReason(lines, finish_reason) ==
    IF CallProcessed(lines) THEN "tool_use"
    ELSE IF finish_reason = "MAX_TOKENS" THEN "max_tokens"
    ELSE "end_turn"

\* the finish reason behind the events of the step just taken
StepFinishReason ==
    IF Len(sp_lines') > Len(sp_lines) THEN LineFinishReason(sp_lines'[Len(sp_lines')]) ELSE ""

StopReasonStep ==
    \A i \in (Len(sp.out) + 1)..Len(sp'.out) :
        sp'.out[i].type = "message_delta"
            => sp'.out[i].kind = CanonicalStopReason(sp_lines', StepFinishReason)

CanonicalStopReasonEmitted == [][StopReasonStep]_vars

\* a finished stream that held a function call and reported MAX_TOKENS, and
\* one that ended without a finish reason
StopReasonWitness ==
    /\ sp_finished
    /\ Len(sp_lines) = 2
    /\ LineHasCall(sp_lines[1])
    /\ LineFinishReason(sp_lines[2]) = "MAX_TOKENS"
    /\ \E i \in 1..Len(sp.out) : sp.out[i].type = "message_delta" /\ sp.out[i].kind = "tool_use"

(***************************************************************************)
(* C24: for any upstream stream the Cursor emitter writes exactly one      *)
(* finish chunk, whose finish_reason is tool_calls when a tool call        *)
(* occurred and stop otherwise, followed by exactly one [DONE] frame,      *)
(* which is the last frame.                                                *)
(***************************************************************************)
FinishChunks(out) == {i \in 1..Len(out) : out[i].type = "chunk" /\ out[i].finish_reason # ""}
DoneFrames(out) == {i \in 1..Len(out) : out[i].type = "done"}
ToolCallChunks(out) == {i \in 1..Len(out) : out[i].kind = "tool_call"}

CursorFinishShape(out) ==
    /\ Cardinality(FinishChunks(out)) = 1
    /\ DoneFrames(out) = {Len(out)}
    /\ \A i \in FinishChunks(out) :
           out[i].finish_reason = IF ToolCallChunks(out) # {} THEN "tool_calls" ELSE "stop"

CursorStreamFinish == cu_finished => CursorFinishShape(cu.out)

(***************************************************************************)
(* C25: acquire calls never overlap: from taking the lock until return,    *)
(* the sleep included, at most one caller is inside acquire, and a caller  *)
(* computes its waits only after the previous caller has appended its      *)
(* instant and updated the last-request time.                              *)
(***************************************************************************)
InsideAcquire == {c \in Callers : rl_pc[c] # "idle"}

OneInsideAcquire ==
    /\ Cardinality(InsideAcquire) <= 1
    /\ \A c \in InsideAcquire : rl_lock = c

\* a caller takes the lock in this step: it goes to sleep, or returns at once
AcquireEntered ==
    \/ \E c \in Callers : rl_pc[c] = "idle" /\ rl_pc'[c] = "sleeping"
    \/ Len(acquire_returns') > Len(acquire_returns) /\ rl_pc' = rl_pc

PreviousCallerDone ==
    /\ InsideAcquire = {}
    /\ acquire_returns # <<>> =>
           /\ last_request_time = acquire_returns[Len(acquire_returns)]
           /\ request_times # <<>>
           /\ request_times[Len(request_times)] = last_request_time

AcquireSerialized == []OneInsideAcquire /\ [][AcquireEntered => PreviousCallerDone]_vars

\* a caller sleeps inside acquire after two earlier returns while the clock
\* has passed the instant it took the lock
AcquireSerializedWitness ==
    \E c \in Callers :
        /\ rl_pc[c] = "sleeping"
        /\ rl_lock = c
        /\ Len(acquire_returns) >= 2
        /\ clock > acquire_returns[Len(acquire_returns)]

(***************************************************************************)
(* C29: after any sequence of acquire calls the stored window of request   *)
(* instants never holds more than max_requests entries.                    *)
(***************************************************************************)
WindowBounded == Len(request_times) <= max_requests

(***************************************************************************)
(* C26: the token cache is guarded by a mutex: when several concurrent     *)
(* requests find the access token missing or expired, at most one          *)
(* refresh_access_token is in flight at any time.                          *)
(***************************************************************************)
RefreshesInFlight == {c \in Callers : tk_pc[c] = "refreshing"}

TokenRefreshExclusive == Cardinality(RefreshesInFlight) <= 1

(***************************************************************************)
(* C27: whenever an attempt of forward_request on a base URL ends in an    *)
(* exception during send or in an HTTP 429, that URL's unavailable-until   *)
(* instant is set to 5 minutes ahead, for every URL attempted in the       *)
(* request (the last of its list included).                                *)
(***************************************************************************)
\* the step ends the attempt of r on its current URL in a 429 or an exception
AttemptFailed(r) ==
    \/ fr[r].pc = "sleep429" /\ fr'[r].pc # "sleep429"
    \/ fr[r].pc = "post" /\ fr'[r].pc = "post" /\ fr'[r].idx = fr[r].idx + 1
    \/ fr[r].pc = "post" /\ fr'[r].pc = "done" /\ fr'[r].status = "raised"

CoolDownStep ==
    \A r \in Requests :
        AttemptFailed(r) =>
            url_availability'[fr[r].urls[fr[r].idx]] = clock' + COOLDOWN_TTL

FailureCoolDown == [][CoolDownStep]_vars

(***************************************************************************)
(* C28: forward_request never attempts a base URL that was in cool-down    *)
(* when the request fixed its URL list, as long as one URL was out of      *)
(* cool-down then; with all URLs cooling it tries the full list in the     *)
(* fixed order.                                                            *)
(***************************************************************************)
IsPrefix(seq, full) ==
    /\ Len(seq) <= Len(full)
    /\ \A i \in DOMAIN seq : seq[i] = full[i]

PoolFiltering ==
    \A r \in Requests :
        fr[r].pc \in {"post", "sleep429", "done"} =>
            IF fr[r].cooling # Urls
            THEN \A i \in DOMAIN fr[r].attempted :
                     fr[r].attempted[i] \notin fr[r].cooling
            ELSE IsPrefix(fr[r].attempted, BASE_URLS)

\* a request that found the first URL cooling, left it out and tried the
\* two others
PoolFilteringWitness ==
    \E r \in Requests :
        /\ fr[r].pc = "done"
        /\ fr[r].cooling = {BASE_URLS[1]}
        /\ fr[r].attempted = <<BASE_URLS[2], BASE_URLS[3]>>

(***************************************************************************)
(* C30: every signature that arrives on a non-thought part with empty text *)
(* is emitted exactly once, as an empty thinking block carrying it, no     *)
(* later than message_stop: once message_stop is out, the stream holds one *)
(* empty thinking block for each such part and one for each signed text    *)
(* part (which is followed by such a block too), and no other.             *)
(***************************************************************************)
LineParts(line) ==
    IF line.json /\ line.candidates # <<>> THEN line.candidates[1].parts ELSE <<>>

RECURSIVE PartsReceived(_)
PartsReceived(lines) ==
    IF lines = <<>> THEN <<>>
    ELSE LineParts(Head(lines)) \o PartsReceived(Tail(lines))

IsPlainSigned(part) ==
    part.functionCall = <<>> /\ ~part.thought /\ part.thoughtSignature # <<>>

TrailingSignatureParts(parts) ==
    {i \in DOMAIN parts : IsPlainSigned(parts[i]) /\ parts[i].text = <<>>}

SignedTextParts(parts) ==
    {i \in DOMAIN parts : IsPlainSigned(parts[i]) /\ parts[i].text # <<>>}

\* an empty thinking block is the only place of an empty thinking_delta
EmptyThinkingBlocks(out) ==
    {i \in DOMAIN out :
        /\ out[i].type = "content_block_delta"
        /\ out[i].kind = "thinking_delta"
        /\ out[i].payload = <<>>
        /\ i < Len(out)
        /\ out[i + 1].kind = "signature_delta"
        /\ out[i + 1].payload # <<>>}

\* no line follows the line that carried the finish reason
FinishReasonLast(lines) ==
    \A i \in DOMAIN lines :
        (lines[i].json /\ lines[i].candidates # <<>>
            /\ lines[i].candidates[1].finishReason # "") => i = Len(lines)

TrailingSignatureDelivered ==
    (sp.message_stop_sent /\ FinishReasonLast(sp_lines)) =>
        Cardinality(EmptyThinkingBlocks(sp.out))
            = Cardinality(TrailingSignatureParts(PartsReceived(sp_lines)))
                + Cardinality(SignedTextParts(PartsReceived(sp_lines)))

(***************************************************************************)
(* C39: in the canonical stream content blocks never overlap: every        *)
(* content_block_start at index i is followed by content_block_stop at     *)
(* index i before any other start, indices run 0, 1, 2, ... without gaps,  *)
(* every content_block_delta carries the index of the open block, and a    *)
(* signature_delta occurs at most once per thinking block, directly before *)
(* its content_block_stop.                                                 *)
(***************************************************************************)
EventsBefore(out, i, type) ==
    Cardinality({j \in 1..(i - 1) : out[j].type = type})

StartsBefore(out, i) == EventsBefore(out, i, "content_block_start")
StopsBefore(out, i) == EventsBefore(out, i, "content_block_stop")

\* the position of the start of the block that is open at position i
OpenStart(out, i) ==
    CHOOSE j \in 1..(i - 1) :
        /\ out[j].type = "content_block_start"
        /\ \A k \in (j + 1)..(i - 1) : out[k].type # "content_block_start"

BracketedAt(out, i) ==
    CASE out[i].type = "content_block_start" ->
             /\ StopsBefore(out, i) = StartsBefore(out, i)
             /\ out[i].index = StartsBefore(out, i)
      [] out[i].type = "content_block_stop" ->
             /\ StartsBefore(out, i) = StopsBefore(out, i) + 1
             /\ out[i].index = StartsBefore(out, i) - 1
      [] out[i].type = "content_block_delta" ->
             /\ StartsBefore(out, i) = StopsBefore(out, i) + 1
             /\ out[i].index = StartsBefore(out, i) - 1
             /\ out[i].kind = "signature_delta" =>
                    /\ out[OpenStart(out, i)].kind = "thinking"
                    /\ i < Len(out)
                    /\ out[i + 1].type = "content_block_stop"
      [] OTHER -> TRUE

\* every block that was started has been stopped
AllBlocksClosed(out) ==
    StartsBefore(out, Len(out) + 1) = StopsBefore(out, Len(out) + 1)

BlocksNeverOverlap == \A i \in DOMAIN sp.out : BracketedAt(sp.out, i)

BlockBracketing ==
    /\ BlocksNeverOverlap
    /\ sp_finished => AllBlocksClosed(sp.out)

(***************************************************************************)
(* C33: an upstream line that is not valid JSON produces no output and     *)
(* leaves every field of the streaming processor unchanged, and the lines  *)
(* after it are processed as if it had not been sent: each processor is in *)
(* the state, output included, that the well-formed lines alone lead to.   *)
(***************************************************************************)
WellFormedLines(lines) == SelectSeq(lines, LAMBDA line : line.json)

RECURSIVE SP_replay(_, _)
SP_replay(s, lines) ==
    IF lines = <<>> THEN s
    ELSE SP_replay(SP_process_line(s, Head(lines)), Tail(lines))

RECURSIVE RSP_replay(_, _)
RSP_replay(s, lines) ==
    IF lines = <<>> THEN s
    ELSE RSP_replay(RSP_process_line(s, Head(lines)), Tail(lines))

MalformedLinesIgnored ==
    /\ sp = IF sp_finished
            THEN SP_finish(SP_replay(SP_new, WellFormedLines(sp_lines)))
            ELSE SP_replay(SP_new, WellFormedLines(sp_lines))
    /\ rs = IF rs_finished
            THEN RSP_finish(RSP_replay(RSP_new, WellFormedLines(rs_lines)))
            ELSE RSP_replay(RSP_new, WellFormedLines(rs_lines))

\* a malformed line arrived after a line that opened a text block, which is
\* still open in both processors
MalformedLinesIgnoredWitness ==
    /\ Len(sp_lines) = 2
    /\ sp_lines[1].json /\ ~sp_lines[2].json
    /\ rs_lines = sp_lines
    /\ sp.block_type # BLOCK_NONE
    /\ rs.in_message

(***************************************************************************)
(* C31: on the Responses stream, for any interleaving of thought, text and *)
(* functionCall parts, every response.output_item.added is followed,       *)
(* before response.completed, by exactly one response.output_item.done     *)
(* with the same output_index, and every output_text.delta carries the     *)
(* output_index of the message item it belongs to.                         *)
(***************************************************************************)
CompletedAt(out) ==
    {i \in DOMAIN out : out[i].type = "response.completed"}

\* the output_item.done events for the item added at position i
DonesFor(out, i) ==
    {j \in (i + 1)..Len(out) :
        /\ out[j].type = "response.output_item.done"
        /\ out[j].output_index = out[i].output_index
        /\ \A c \in CompletedAt(out) : j < c}

\* the position at which the message item open at position i was added
MessageAddedBefore(out, i) ==
    {j \in 1..(i - 1) :
        /\ out[j].type = "response.output_item.added"
        /\ out[j].item = "message"
        /\ \A k \in (j + 1)..(i - 1) :
               ~(out[k].type = "response.output_item.added" /\ out[k].item = "message")}

ItemsPaired(out) ==
    \A i \in DOMAIN out :
        out[i].type = "response.output_item.added" => Cardinality(DonesFor(out, i)) = 1

DeltasOnTheirItem(out) ==
    \A i \in DOMAIN out :
        out[i].type = "response.output_text.delta" =>
            \E j \in MessageAddedBefore(out, i) : out[i].output_index = out[j].output_index

ResponsesItemPairing ==
    /\ DeltasOnTheirItem(rs.out)
    /\ rs_finished => ItemsPaired(rs.out)

(***************************************************************************)
(* C32: a non-streaming /v1/messages reply reports stop_reason max_tokens  *)
(* whenever the last finishReason seen from upstream was MAX_TOKENS and no *)
(* function call occurred.                                                 *)
(***************************************************************************)
FinishReasonsSeen(lines) ==
    SelectSeq(lines, LAMBDA line :
        line.json /\ line.candidates # <<>> /\ line.candidates[1].finishReason # "")

LastFinishReason(lines) ==
    IF FinishReasonsSeen(lines) = <<>> THEN ""
    ELSE FinishReasonsSeen(lines)[Len(FinishReasonsSeen(lines))].candidates[1].finishReason

NoFunctionCall(parts) == \A i \in DOMAIN parts : parts[i].functionCall = <<>>

NonStreamStopReason ==
    (/\ h.kind = "claude_non_streaming"
     /\ h.pc = "closed"
     /\ LastFinishReason(up_lines) = "MAX_TOKENS"
     /\ NoFunctionCall(PartsOf(up_lines)))
        => h.stop_reason = "max_tokens"

(***************************************************************************)
(* C34: for any interleaving of concurrent first requests the              *)
(* loadCodeAssist call is made by one request only, and every request that *)
(* passes _ensure_project without error is forwarded with a non-empty      *)
(* project id.                                                             *)
(***************************************************************************)
Bootstrapping == {r \in Requests : fr[r].pc = "lca_post"}

\* the request has passed _ensure_project and fixed what it sends upstream
Forwarded(r) ==
    \/ fr[r].pc \in {"post", "sleep429"}
    \/ fr[r].pc = "done" /\ fr[r].status # "bootstrap_failed"

OneBootstrap == Cardinality(Bootstrapping) <= 1

ForwardedWithProject == \A r \in Requests : Forwarded(r) => fr[r].project # <<>>

ProjectBootstrap == OneBootstrap /\ ForwardedWithProject

(***************************************************************************)
(* C35: whenever a thinking block is downgraded for lack of a real         *)
(* signature while the contents are built, the envelope has thinking       *)
(* disabled as a whole: it has no thinkingConfig and no part anywhere in   *)
(* contents carries thought = true.                                        *)
(***************************************************************************)
StrippedInTransform ==
    /\ tr_env # <<>>
    /\ AnyStripped(tr_messages, IsThinking(tr_req, tr_messages),
                   AllowDummy(tr_req.model), global_thought_signature)

NoThoughtPart(contents) ==
    \A i \in DOMAIN contents : ~HasThought(contents[i].parts)

StripDisablesThinking ==
    StrippedInTransform =>
        /\ ~tr_env[1].thinkingConfig
        /\ NoThoughtPart(tr_env[1].contents)

(***************************************************************************)
(* C36: after filter_invalid_thinking_blocks every thinking block left in  *)
(* an assistant message is valid (signature of length >= 50, or empty text *)
(* with a non-empty signature), for any state of the signature store: an   *)
(* invalid block was repaired with the stored signature when that is long  *)
(* enough, else downgraded to text or dropped.                             *)
(***************************************************************************)
ValidThinking(block) ==
    \/ Len(block.signature) >= MIN_SIGNATURE_LENGTH
    \/ block.text = <<>> /\ block.signature # <<>>

ThinkingBlocksValid(messages) ==
    \A i \in DOMAIN messages :
        messages[i].role \in {"assistant", "model"} =>
            \A b \in DOMAIN messages[i].content :
                messages[i].content[b].type = "thinking" =>
                    ValidThinking(messages[i].content[b])

StoredIsLong == 
    /\ global_thought_signature # None
    /\ Len(global_thought_signature[1]) >= MIN_SIGNATURE_LENGTH

\* what the claim says becomes of one block of the request
Repaired(block) ==
    IF block.type # "thinking" \/ ValidThinking(block) THEN <<block>>
    ELSE IF StoredIsLong
    THEN <<MkBlock("thinking", block.text, global_thought_signature[1])>>
    ELSE IF ~Blank(block.text) THEN <<MkBlock("text", block.text, <<>>)>>
    ELSE <<>>

RECURSIVE RepairedAll(_)
RepairedAll(content) ==
    IF content = <<>> THEN <<>> ELSE Repaired(Head(content)) \o RepairedAll(Tail(content))

\* a message left without blocks holds one empty text block
FilteredAsClaimed(before, after) ==
    after.content \in {RepairedAll(before.content), <<MkBlock("text", <<>>, <<>>)>>}
        /\ (RepairedAll(before.content) # <<>> => after.content = RepairedAll(before.content))

ThinkingFilterPostcondition ==
    tr_env # <<>> =>
        /\ ThinkingBlocksValid(tr_messages)
        /\ \A i \in DOMAIN tr_messages :
               tr_messages[i].role \in {"assistant", "model"} =>
                   FilteredAsClaimed(tr_req.messages[i], tr_messages[i])

\* a short signature was replaced by the stored one in one message and a
\* block was kept as it was
ThinkingFilterPostconditionWitness ==
    /\ tr_env # <<>>
    /\ StoredIsLong
    /\ \E i \in DOMAIN tr_messages :
           /\ tr_messages[i].role = "assistant"
           /\ tr_messages[i].content # tr_req.messages[i].content
           /\ \E b \in DOMAIN tr_messages[i].content :
                  /\ tr_messages[i].content[b].type = "thinking"
                  /\ tr_messages[i].content[b].signature = global_thought_signature[1]
                  /\ tr_req.messages[i].content[b].signature # global_thought_signature[1]

(***************************************************************************)
(* C37: the thoughtSignature of each functionCall part is the block's own  *)
(* signature if it has length >= 50, else the stored signature if it has   *)
(* length >= 50, else the dummy sentinel iff the mapped model is           *)
(* Gemini-family; hence every functionCall part sent to a Gemini-family    *)
(* model carries a thoughtSignature.                                       *)
(***************************************************************************)
IsGeminiFamily(model) == model # <<>> /\ model[1] = "gemini-"

ResolvedSignature(block, model, stored) ==
    IF Len(block.signature) >= MIN_SIGNATURE_LENGTH THEN block.signature
    ELSE IF stored # None /\ Len(stored[1]) >= MIN_SIGNATURE_LENGTH THEN stored[1]
    ELSE IF IsGeminiFamily(model) THEN DUMMY_THOUGHT_SIGNATURE
    ELSE <<>>

RECURSIVE Flatten(_)
Flatten(seqs) == IF seqs = <<>> THEN <<>> ELSE Head(seqs) \o Flatten(Tail(seqs))

ToolUseBlocks(messages) ==
    SelectSeq(Flatten([i \in DOMAIN messages |-> messages[i].content]),
              LAMBDA block : block.type = "tool_use")

FunctionCallSequence(contents) ==
    SelectSeq(Flatten([i \in DOMAIN contents |-> contents[i].parts]),
              LAMBDA part : part.kind = "functionCall")

ToolUseSignatureResolution ==
    tr_env # <<>> =>
        /\ Len(FunctionCallSequence(tr_env[1].contents)) = Len(ToolUseBlocks(tr_messages))
        /\ \A k \in DOMAIN ToolUseBlocks(tr_messages) :
               FunctionCallSequence(tr_env[1].contents)[k].thoughtSignature
                   = ResolvedSignature(ToolUseBlocks(tr_messages)[k], tr_req.model,
                                       global_thought_signature)
        /\ IsGeminiFamily(tr_req.model) =>
               \A k \in DOMAIN FunctionCallSequence(tr_env[1].contents) :
                   FunctionCallSequence(tr_env[1].contents)[k].thoughtSignature # <<>>

\* one request with a tool_use block signed by itself and one that falls
\* back on the stored signature
ToolUseSignatureResolutionWitness ==
    /\ tr_env # <<>>
    /\ StoredIsLong
    /\ Len(FunctionCallSequence(tr_env[1].contents)) = 2
    /\ FunctionCallSequence(tr_env[1].contents)[1].thoughtSignature
           = Rep("z", MIN_SIGNATURE_LENGTH)
    /\ FunctionCallSequence(tr_env[1].contents)[2].thoughtSignature
           = global_thought_signature[1]

(***************************************************************************)
(* C38: when the envelope has thinking enabled and the mapped model is     *)
(* Gemini-family, every model message in contents has a thought part at    *)
(* index 0: its own thinking block or the inserted dummy thought.          *)
(***************************************************************************)
IsDummyThought(part) ==
    part = ThoughtPart(DUMMY_THOUGHT_TEXT, DUMMY_THOUGHT_SIGNATURE)

ModelMessages(contents) == {i \in DOMAIN contents : contents[i].role = "model"}

LeadingThoughtForGemini ==
    (tr_env # <<>> /\ tr_env[1].thinkingConfig /\ IsGeminiFamily(tr_env[1].model)) =>
        \A i \in ModelMessages(tr_env[1].contents) :
            /\ tr_env[1].contents[i].parts # <<>>
            /\ tr_env[1].contents[i].parts[1].thought

\* an envelope whose first model message leads with its own thinking block
\* and whose second leads with the inserted dummy
LeadingThoughtForGeminiWitness ==
    /\ tr_env # <<>>
    /\ tr_env[1].thinkingConfig
    /\ IsGeminiFamily(tr_env[1].model)
    /\ ModelMessages(tr_env[1].contents) = {1, 2}
    /\ tr_env[1].contents[1].parts[1].thought
    /\ ~IsDummyThought(tr_env[1].contents[1].parts[1])
    /\ IsDummyThought(tr_env[1].contents[2].parts[1])
    /\ Len(tr_env[1].contents[2].parts) = 2

(***************************************************************************)
(* C40: every upstream response obtained by a handler is released exactly  *)
(* once on every exit path (normal completion, upstream status >= 400,     *)
(* client disconnect, exception while streaming), and a 429 response on a  *)
(* non-final URL is released before the next URL is tried.                 *)
(***************************************************************************)
HandlerExited == ur.pc = "done"

ReleasedOnce(st) == \A k \in DOMAIN st.resps : st.resps[k].releases = 1

\* the responses obtained before a post are all released when it is made
ReleasedBeforeNextUrl(st) ==
    \A i \in DOMAIN st.trace :
        st.trace[i].ev = "post" =>
            \A j \in 1..(i - 1) :
                (st.trace[j].ev = "post" /\ j < i /\
                 \E k \in DOMAIN st.resps : st.resps[k].url = st.trace[j].resp) =>
                    \E m \in (j + 1)..(i - 1) :
                        /\ st.trace[m].ev = "release"
                        /\ st.resps[st.trace[m].resp].url = st.trace[j].resp

NeverReleasedTwice == \A k \in DOMAIN ur.resps : ur.resps[k].releases <= 1

RetryReleasesFirst == ReleasedBeforeNextUrl(ur)

ReleasedOnBodyPaths ==
    (HandlerExited /\ ur.exit \in {"completed", "client_disconnect", "body_exception",
                                    "upstream_error"}) => ReleasedOnce(ur)

UpstreamRelease ==
    /\ HandlerExited => ReleasedOnce(ur)
    /\ ReleasedBeforeNextUrl(ur)

====
